---- MODULE Spec2Model ----
(***************************************************************************)
(* Celeride server: the conversation/context engine.                       *)
(*                                                                         *)
(*   - ContextManager (src/context-manager.js): the per-user session store *)
(*   - AIAgent (src/unnamed/part_002): guardrail, completion calls, tool   *)
(*     dispatch                                                            *)
(*   - the ai_chat_message handler and the context endpoints of            *)
(*     src/server.js                                                       *)
(*                                                                         *)
(* JavaScript objects live in a heap (heap) and are named by references,   *)
(* so that two holders of one session object see each other's writes and a *)
(* replaced session object stays reachable by whoever still holds it.      *)
(* Date.now() is the variable now; it does not advance inside one          *)
(* synchronous handler.                                                    *)
(***************************************************************************)
EXTENDS Integers, Sequences, FiniteSets, TLC

VARIABLES
    userContexts,   \* userContexts of server.js's ContextManager: userId -> reference
                    \* (NoRef: no entry)
    sweptContexts,  \* userContexts of the ContextManager context-manager.js creates
    heap,           \* reference -> session object (FreeObj: unused)
    now,            \* Date.now(), in milliseconds
    appended,       \* how many messages the callers have appended (bounds the run)
    lastCall,       \* the store operation performed last, with its arguments
    log,            \* the console lines that operation wrote
    ret,            \* what that operation returned
    activeBuses,    \* server.js activeBuses: the Map's values, in insertion order
    busRoutes,      \* server.js busRoutes: the Map's values, in insertion order
    busStops,       \* server.js busStops: the Map's entries, in insertion order
    turns,          \* the chat turns in flight: slot -> position and locals
    served,         \* how many turns have been started (bounds the run)
    activeConnections,  \* server.js activeConnections: socket id -> connection
                        \* (NoConnection: no entry)
    broadcast,      \* the bus_inactive events io.emit has sent to every client
    db,             \* the database: the rows of active_buses and proximity_events
    dbCalls,        \* the db.updateBusLocation calls in flight: slot -> position and locals
    backgroundState,    \* background runner: backgroundState
    BACKGROUND_CONFIG,  \* background runner: BACKGROUND_CONFIG
    intervals,      \* the interval timers of the runner that are set and not cleared
    timerIds,       \* how many timers setInterval has created in the runner
    captures,       \* the captureLocationInBackground calls that await the position
    posted,         \* the messages the runner's last step sent to the main app
    failedInARow    \* (history) capture failures since the last success or start

storeVars == <<userContexts, sweptContexts, heap, now, appended, lastCall, log, ret>>
\* The state of the components the store and the agent never touch.
socketVars == <<activeConnections, broadcast>>
dbVars == <<db, dbCalls>>
runnerVars ==
    <<backgroundState, BACKGROUND_CONFIG, intervals, timerIds, captures, posted,
      failedInARow>>
extVars == <<socketVars, dbVars, runnerVars>>
agentVars == <<activeBuses, busRoutes, busStops, turns, served, extVars>>
vars == <<storeVars, agentVars>>

----------------------------------------------------------------------------
(* Bounds of the model *)

MaxTicks == 1          \* single milliseconds the clock advances by, per run
MaxAppends == 21       \* appended messages per run of SpecHistory
MaxStoreAppends == 2   \* appended messages per run of Spec
MaxTokenMessages == 3  \* messages of the history SpecTokens starts from
MaxQueries == 2        \* processQuery calls per run of SpecAgent
MaxTurns == 2          \* chat messages per run of SpecChat
MaxRoutes == 2         \* routes of the snapshot find_routes searches in SpecRoutes
MaxStopLists == 2      \* buses whose stops the snapshot of SpecStops holds
MaxNearestLists == 2   \* buses whose stops the snapshot of SpecNearest holds
MaxArrivalRoutes == 2  \* routes the snapshot of SpecArrival holds
MaxSweepTicks == 2     \* milliseconds around the age limit in SpecSweep
MaxSweeps == 5         \* firings of the sweep timer per run of SpecTimer
MaxTimerAppends == 2   \* appended messages per run of SpecTimer
MaxResetAppends == 2   \* appended messages per run of SpecReset
MaxOverlapTurns == 2   \* chat messages per run of SpecOverlap
MaxRaceTurns == 1      \* chat messages per run of SpecRace
MaxSnapshotTurns == 2  \* chat messages per run of SpecSnapshot
MaxBroadcasts == 2     \* bus_inactive events per run of SpecSockets
MaxProximityEvents == 2  \* proximity events after which SpecProximity starts no call
MaxTimers == 3         \* setInterval calls per run of SpecRunner
MaxFailures == 4       \* failures in a row after which SpecRunner begins no capture
MaxExchanges == 11     \* addToConversationHistory calls per run of SpecExchanges
MaxExchangeMessages == 2  \* addMessageToHistory calls per run of SpecExchanges

----------------------------------------------------------------------------
(* JavaScript values *)

NULL == [null |-> TRUE]
UNDEFINED == [undefined |-> TRUE]

\* A string value: the characters s followed by pad filler characters ("."),
\* which lets a text of thousands of characters be written down.
JsString(s, pad) == [s |-> s, pad |-> pad]
Str(s) == JsString(s, 0)
IsString(v) == DOMAIN v = {"s", "pad"}
StrLen(v) == Len(v.s) + v.pad

Users == {"u1", "u2"}
\* The users whose requests Spec follows.
Callers == {"u1"}
Roles == {"user", "assistant"}

\* The k-th text a caller sends: "msg" followed by k filler characters, so
\* that any two texts of a run differ.
Text(k) == JsString("msg", k)

Loc1 == [lat |-> 1, lng |-> 2]
Loc2 == [lat |-> 3, lng |-> 4]

----------------------------------------------------------------------------
(* Strings: String.prototype.toLowerCase, String.prototype.includes *)

UpperCase == "ABCDEFGHIJKLMNOPQRSTUVWXYZ"
LowerCase == "abcdefghijklmnopqrstuvwxyz"

CharAt(s, i) == SubSeq(s, i, i)

LowerChar(c) ==
    IF \E i \in 1..Len(UpperCase) : CharAt(UpperCase, i) = c
    THEN CharAt(LowerCase, CHOOSE i \in 1..Len(UpperCase) : CharAt(UpperCase, i) = c)
    ELSE c

RECURSIVE toLowerCase(_)
toLowerCase(s) ==
    IF s = "" THEN ""
    ELSE LowerChar(CharAt(s, 1)) \o toLowerCase(SubSeq(s, 2, Len(s)))

includes(s, word) ==
    \/ word = ""
    \/ \E i \in 1..(Len(s) - Len(word) + 1) : SubSeq(s, i, i + Len(word) - 1) = word

----------------------------------------------------------------------------
(* JSON values, as JSON.parse builds them *)

JNull == [t |-> "null"]
JUndefined == [t |-> "undefined"]
JStr(s) == [t |-> "string", v |-> s]
JNum(n) == [t |-> "number", v |-> n]
JObj(o) == [t |-> "object", v |-> o]

\* !value
Falsy(j) ==
    \/ j.t \in {"null", "undefined"}
    \/ j.t = "string" /\ j.v = ""
    \/ j.t = "number" /\ j.v = 0

\* value.key, for a value that is neither null nor undefined
Prop(j, key) ==
    IF j.t = "object" /\ key \in DOMAIN j.v THEN j.v[key] ELSE JUndefined

\* `${value}`, and the property key a value is used as
ToText(j) ==
    CASE j.t = "string" -> j.v
      [] j.t = "number" -> ToString(j.v)
      [] j.t = "null" -> "null"
      [] j.t = "undefined" -> "undefined"
      [] OTHER -> "[object Object]"

\* JSON.stringify(value): the text that denotes value
JSONstringify(value) == [json |-> value]

----------------------------------------------------------------------------
(* The texts a completion returns, and JSON.parse on them *)

PlainText == "The next bus arrives in 5 minutes."
NumberText == "42"
NullText == "null"
NoArgumentsText == "{\"tool_name\":\"find_routes\"}"
NoToolNameText == "{\"arguments\":{\"busId\":\"B1\"}}"
FindRoutesText ==
    "{\"tool_name\":\"find_routes\",\"arguments\":{\"fromStop\":\"A\",\"toStop\":\"C\"}}"
BusDetailsText == "{\"tool_name\":\"get_bus_details\",\"arguments\":{\"busId\":\"b1\"}}"
NearestStopsText == "{\"tool_name\":\"find_nearest_stops\",\"arguments\":{}}"
ArrivalTimeText ==
    "{\"tool_name\":\"get_arrival_time\",\"arguments\":{\"busId\":\"B1\",\"stopName\":\"c\"}}"
MissingArgumentText == "{\"tool_name\":\"find_routes\",\"arguments\":{\"fromStop\":\"A\"}}"
UnknownToolText == "{\"tool_name\":\"book_ticket\",\"arguments\":{}}"
InheritedToolText == "{\"tool_name\":\"toString\",\"arguments\":{}}"
ProtoToolText == "{\"tool_name\":\"__proto__\",\"arguments\":{}}"
StringArgumentsText == "{\"tool_name\":\"find_nearest_stops\",\"arguments\":\"soon\"}"
NumberToolNameText == "{\"tool_name\":7,\"arguments\":{}}"

NoFields == [k \in {} |-> JNull]

ToolCallJson(name, arguments) == JObj([tool_name |-> name, arguments |-> arguments])

\* How a call ends: it returns a value or throws an error with a message.
Returned(value) == [value |-> value]
Thrown(message) == [threw |-> message]
SyntaxError == Thrown("Unexpected token")
Threw(r) == "threw" \in DOMAIN r

\* JSON.parse(text), text a JavaScript value (a string, null or undefined)
JSONparse(text) ==
    IF text = NULL THEN Returned(JNull)
    ELSE IF text = UNDEFINED THEN SyntaxError
    ELSE CASE text.s = NumberText -> Returned(JNum(42))
           [] text.s = NullText -> Returned(JNull)
           [] text.s = NoArgumentsText ->
                Returned(JObj([tool_name |-> JStr("find_routes")]))
           [] text.s = NoToolNameText ->
                Returned(JObj([arguments |-> JObj([busId |-> JStr("B1")])]))
           [] text.s = FindRoutesText ->
                Returned(ToolCallJson(JStr("find_routes"),
                                      JObj([fromStop |-> JStr("A"), toStop |-> JStr("C")])))
           [] text.s = BusDetailsText ->
                Returned(ToolCallJson(JStr("get_bus_details"),
                                      JObj([busId |-> JStr("b1")])))
           [] text.s = NearestStopsText ->
                Returned(ToolCallJson(JStr("find_nearest_stops"), JObj(NoFields)))
           [] text.s = ArrivalTimeText ->
                Returned(ToolCallJson(JStr("get_arrival_time"),
                                      JObj([busId |-> JStr("B1"), stopName |-> JStr("c")])))
           [] text.s = MissingArgumentText ->
                Returned(ToolCallJson(JStr("find_routes"), JObj([fromStop |-> JStr("A")])))
           [] text.s = UnknownToolText ->
                Returned(ToolCallJson(JStr("book_ticket"), JObj(NoFields)))
           [] text.s = InheritedToolText ->
                Returned(ToolCallJson(JStr("toString"), JObj(NoFields)))
           [] text.s = ProtoToolText ->
                Returned(ToolCallJson(JStr("__proto__"), JObj(NoFields)))
           [] text.s = StringArgumentsText ->
                Returned(ToolCallJson(JStr("find_nearest_stops"), JStr("soon")))
           [] text.s = NumberToolNameText ->
                Returned(ToolCallJson(JNum(7), JObj(NoFields)))
           [] OTHER -> SyntaxError

----------------------------------------------------------------------------
(* agentTools (src/unnamed/part_002) *)

\* value.toLowerCase() throws unless value is a string
NotAString(j) == j.t # "string"

toLowerCaseError(j, variable) ==
    IF j.t \in {"undefined", "null"}
    THEN Thrown("Cannot read properties of " \o j.t \o " (reading 'toLowerCase')")
    ELSE Thrown(variable \o ".toLowerCase is not a function")

Min(S) == CHOOSE x \in S : \A y \in S : x <= y

\* Array.prototype.findIndex, counting from 1; 0 when no element passes
FindIndex(seq, Test(_)) ==
    IF \E i \in 1..Len(seq) : Test(seq[i])
    THEN Min({i \in 1..Len(seq) : Test(seq[i])})
    ELSE 0

Map(seq, F(_)) == [i \in 1..Len(seq) |-> F(seq[i])]

\* (mutant) a route also qualifies when both names match the same stop
find_routesSameStop(args, context) ==
    LET fromStop == Prop(args, "fromStop")
        toStop == Prop(args, "toStop")
    IN  IF NotAString(fromStop) THEN toLowerCaseError(fromStop, "fromStop")
        ELSE IF NotAString(toStop) THEN toLowerCaseError(toStop, "toStop")
        ELSE
        LET from == toLowerCase(fromStop.v)
            to == toLowerCase(toStop.v)
            fromIndex(route) ==
                FindIndex(route.parsedStops, LAMBDA s : includes(toLowerCase(s.name), from))
            toIndex(route) ==
                FindIndex(route.parsedStops, LAMBDA s : includes(toLowerCase(s.name), to))
            Connects(route) ==
                fromIndex(route) > 0 /\ toIndex(route) > 0 /\ fromIndex(route) <= toIndex(route)
            RouteOf(route) ==
                LET path == SubSeq(route.parsedStops, fromIndex(route), toIndex(route))
                IN  [busId |-> route.busId,
                     path |-> Map(path, LAMBDA p : p.name),
                     stopCount |-> Len(path),
                     estimatedTime |-> ToString(Len(path) * 2) \o " minutes"]
            allRoutes == Map(SelectSeq(context.busRoutes, Connects), RouteOf)
        IN  IF Len(allRoutes) > 0
            THEN Returned([success |-> TRUE, routes |-> allRoutes])
            ELSE Returned([success |-> FALSE,
                           message |-> "No direct routes found from " \o fromStop.v
                                       \o " to " \o toStop.v \o "."])

find_routes(args, context) ==
    LET fromStop == Prop(args, "fromStop")
        toStop == Prop(args, "toStop")
    IN  IF NotAString(fromStop) THEN toLowerCaseError(fromStop, "fromStop")
        ELSE IF NotAString(toStop) THEN toLowerCaseError(toStop, "toStop")
        ELSE
        LET from == toLowerCase(fromStop.v)
            to == toLowerCase(toStop.v)
            fromIndex(route) ==
                FindIndex(route.parsedStops, LAMBDA s : includes(toLowerCase(s.name), from))
            toIndex(route) ==
                FindIndex(route.parsedStops, LAMBDA s : includes(toLowerCase(s.name), to))
            Connects(route) ==
                fromIndex(route) > 0 /\ toIndex(route) > 0 /\ fromIndex(route) < toIndex(route)
            RouteOf(route) ==
                LET path == SubSeq(route.parsedStops, fromIndex(route), toIndex(route))
                IN  [busId |-> route.busId,
                     path |-> Map(path, LAMBDA p : p.name),
                     stopCount |-> Len(path),
                     estimatedTime |-> ToString(Len(path) * 2) \o " minutes"]
            allRoutes == Map(SelectSeq(context.busRoutes, Connects), RouteOf)
        IN  IF Len(allRoutes) > 0
            THEN Returned([success |-> TRUE, routes |-> allRoutes])
            ELSE Returned([success |-> FALSE,
                           message |-> "No direct routes found from " \o fromStop.v
                                       \o " to " \o toStop.v \o "."])

\* context.activeBuses.find(b => b.busId.toLowerCase() === busId.toLowerCase()):
\* the index of the bus, 0 when there is none
FindBus(context, busId) ==
    FindIndex(context.activeBuses,
              LAMBDA b : toLowerCase(b.busId) = toLowerCase(busId.v))

get_bus_details(args, context) ==
    LET busId == Prop(args, "busId")
    IN  IF Len(context.activeBuses) > 0 /\ NotAString(busId)
        THEN toLowerCaseError(busId, "busId")
        ELSE IF Len(context.activeBuses) > 0 /\ FindBus(context, busId) > 0
        THEN LET bus == context.activeBuses[FindBus(context, busId)]
             IN  Returned([status |-> "found",
                           details |-> [busId |-> bus.busId,
                                        latitude |-> bus.latitude,
                                        longitude |-> bus.longitude,
                                        speed |-> bus.speed,
                                        heading |-> bus.heading,
                                        accuracy |-> bus.accuracy,
                                        lastUpdate |-> bus.lastUpdate,
                                        isMoving |-> bus.speed > 0]])
        ELSE Returned([status |-> "not_found",
                       message |-> "Bus with ID '" \o ToText(busId)
                                   \o "' is not currently active or does not exist."])

\* (mutant) the first stop of the route counts as one stop away
get_arrival_timeOneBased(args, context, t) ==
    LET busId == Prop(args, "busId")
        stopName == Prop(args, "stopName")
        routeIndex == FindIndex(context.busRoutes, LAMBDA r : JStr(r.busId) = busId)
    IN  IF Len(context.activeBuses) > 0 /\ NotAString(busId)
        THEN toLowerCaseError(busId, "busId")
        ELSE IF Len(context.activeBuses) = 0 \/ FindBus(context, busId) = 0
        THEN Returned([error |-> "Bus " \o ToText(busId) \o " not found or not active."])
        ELSE IF routeIndex = 0
        THEN Returned([error |-> "Route information not available for bus "
                                 \o busId.v \o "."])
        ELSE
        LET bus == context.activeBuses[FindBus(context, busId)]
            parsedStops == context.busRoutes[routeIndex].parsedStops
        IN  IF Len(parsedStops) > 0 /\ NotAString(stopName)
            THEN toLowerCaseError(stopName, "stopName")
            ELSE
            LET stopIndex ==
                    IF Len(parsedStops) = 0 THEN 0
                    ELSE FindIndex(parsedStops,
                             LAMBDA s : includes(toLowerCase(s.name),
                                                 toLowerCase(stopName.v)))
                estimatedMinutes == stopIndex * 2
            IN  IF stopIndex = 0
                THEN Returned([error |-> "Stop '" \o ToText(stopName)
                                         \o "' not found on route for bus " \o busId.v \o "."])
                ELSE Returned([busId |-> busId.v,
                               stopName |-> stopName.v,
                               estimatedArrival |-> [time |-> t + estimatedMinutes * 60000],
                               estimatedMinutes |-> estimatedMinutes,
                               currentBusLocation |-> [latitude |-> bus.latitude,
                                                       longitude |-> bus.longitude]])

get_arrival_time(args, context, t) ==
    LET busId == Prop(args, "busId")
        stopName == Prop(args, "stopName")
        routeIndex == FindIndex(context.busRoutes, LAMBDA r : JStr(r.busId) = busId)
    IN  IF Len(context.activeBuses) > 0 /\ NotAString(busId)
        THEN toLowerCaseError(busId, "busId")
        ELSE IF Len(context.activeBuses) = 0 \/ FindBus(context, busId) = 0
        THEN Returned([error |-> "Bus " \o ToText(busId) \o " not found or not active."])
        ELSE IF routeIndex = 0
        THEN Returned([error |-> "Route information not available for bus "
                                 \o busId.v \o "."])
        ELSE
        LET bus == context.activeBuses[FindBus(context, busId)]
            parsedStops == context.busRoutes[routeIndex].parsedStops
        IN  IF Len(parsedStops) > 0 /\ NotAString(stopName)
            THEN toLowerCaseError(stopName, "stopName")
            ELSE
            LET stopIndex ==
                    IF Len(parsedStops) = 0 THEN 0
                    ELSE FindIndex(parsedStops,
                             LAMBDA s : includes(toLowerCase(s.name),
                                                 toLowerCase(stopName.v)))
                estimatedMinutes == (stopIndex - 1) * 2
            IN  IF stopIndex = 0
                THEN Returned([error |-> "Stop '" \o ToText(stopName)
                                         \o "' not found on route for bus " \o busId.v \o "."])
                ELSE Returned([busId |-> busId.v,
                               stopName |-> stopName.v,
                               estimatedArrival |-> [time |-> t + estimatedMinutes * 60000],
                               estimatedMinutes |-> estimatedMinutes,
                               currentBusLocation |-> [latitude |-> bus.latitude,
                                                       longitude |-> bus.longitude]])

\* All stops of context.busStops in order, bus after bus.
RECURSIVE Flatten(_)
Flatten(entries) ==
    IF entries = <<>> THEN <<>> ELSE Head(entries).stops \o Flatten(Tail(entries))

\* (mutant) the allStops map is keyed by the name as written
RECURSIVE FirstOfEachNameCaseSensitive(_, _)
FirstOfEachNameCaseSensitive(stops, seen) ==
    IF stops = <<>> THEN <<>>
    ELSE LET stop == Head(stops)
             stopKey == stop.name
         IN  IF stop.name # "" /\ stop.latitude # 0 /\ stop.longitude # 0
                /\ stopKey \notin seen
             THEN <<stop>> \o FirstOfEachNameCaseSensitive(Tail(stops), seen \cup {stopKey})
             ELSE FirstOfEachNameCaseSensitive(Tail(stops), seen)

\* The allStops map: of the stops with a name and non-zero coordinates, the
\* first one under each lower-cased name.
RECURSIVE FirstOfEachName(_, _)
FirstOfEachName(stops, seen) ==
    IF stops = <<>> THEN <<>>
    ELSE LET stop == Head(stops)
             stopKey == toLowerCase(stop.name)
         IN  IF stop.name # "" /\ stop.latitude # 0 /\ stop.longitude # 0
                /\ stopKey \notin seen
             THEN <<stop>> \o FirstOfEachName(Tail(stops), seen \cup {stopKey})
             ELSE FirstOfEachName(Tail(stops), seen)

\* The great-circle distance grows with this sum of squared differences for
\* the coordinates of the model, which lie within a few degrees of each other
\* and of the equator; the model orders stops by it.
Distance(stop, userLat, userLng) ==
    (stop.latitude - userLat) * (stop.latitude - userLat)
    + (stop.longitude - userLng) * (stop.longitude - userLng)

\* Array.prototype.sort((a, b) => a.distance - b.distance), which is stable
RECURSIVE SortByDistance(_)
SortByDistance(stops) ==
    IF stops = <<>> THEN <<>>
    ELSE LET least == Min({stops[i].distance : i \in 1..Len(stops)})
             first == Min({i \in 1..Len(stops) : stops[i].distance = least})
         IN  <<stops[first]>>
             \o SortByDistance(SubSeq(stops, 1, first - 1)
                               \o SubSeq(stops, first + 1, Len(stops)))

defaultCount == 3

\* (mutant) the stops are collected before the location is looked at
find_nearest_stopsStopsFirst(args, context) ==
    LET count == IF Prop(args, "count").t = "number" THEN Prop(args, "count").v
                 ELSE defaultCount
        allStops == FirstOfEachName(Flatten(context.busStops), {})
    IN  IF Len(allStops) = 0
        THEN Returned([message |-> "No bus stops available to search."])
        ELSE IF \/ context.userLocation = NULL
                \/ context.userLocation.lat = 0
                \/ context.userLocation.lng = 0
        THEN Returned([error |->
                "User location is not available. Cannot find nearest stops without it."])
        ELSE
        LET stopsWithDistance ==
                Map(allStops,
                    LAMBDA stop : [name |-> stop.name,
                                   latitude |-> stop.latitude,
                                   longitude |-> stop.longitude,
                                   distance |-> Distance(stop, context.userLocation.lat,
                                                         context.userLocation.lng)])
            sorted == SortByDistance(stopsWithDistance)
        IN  Returned([stops |->
                    Map(SubSeq(sorted, 1, Min({count, Len(sorted)})),
                        LAMBDA s : [name |-> s.name,
                                    distance_km |-> s.distance,
                                    coordinates |-> ToString(s.latitude) \o ", "
                                                    \o ToString(s.longitude)])])

find_nearest_stops(args, context) ==
    LET count == IF Prop(args, "count").t = "number" THEN Prop(args, "count").v
                 ELSE defaultCount
    IN  IF \/ context.userLocation = NULL
           \/ context.userLocation.lat = 0
           \/ context.userLocation.lng = 0
        THEN Returned([error |->
                "User location is not available. Cannot find nearest stops without it."])
        ELSE
        LET allStops == FirstOfEachName(Flatten(context.busStops), {})
            stopsWithDistance ==
                Map(allStops,
                    LAMBDA stop : [name |-> stop.name,
                                   latitude |-> stop.latitude,
                                   longitude |-> stop.longitude,
                                   distance |-> Distance(stop, context.userLocation.lat,
                                                         context.userLocation.lng)])
            sorted == SortByDistance(stopsWithDistance)
        IN  IF Len(allStops) = 0
            THEN Returned([message |-> "No bus stops available to search."])
            ELSE Returned([stops |->
                    Map(SubSeq(sorted, 1, Min({count, Len(sorted)})),
                        LAMBDA s : [name |-> s.name,
                                    distance_km |-> s.distance,
                                    coordinates |-> ToString(s.latitude) \o ", "
                                                    \o ToString(s.longitude)])])

\* agentTools[tool_name]: the object's own properties, and those it inherits
\* from Object.prototype
OwnTools == {"find_routes", "get_bus_details", "find_nearest_stops", "get_arrival_time"}

InheritedFunctions ==
    {"constructor", "toString", "toLocaleString", "valueOf", "hasOwnProperty",
     "isPrototypeOf", "propertyIsEnumerable"}

InheritedObjects == {"__proto__"}

\* agentTools[tool_name](args, context), tool_name a key of the lookup above
CallTool(key, args, context, t) ==
    CASE key = "find_routes" -> find_routes(args, context)
      [] key = "get_bus_details" -> get_bus_details(args, context)
      [] key = "find_nearest_stops" -> find_nearest_stops(args, context)
      [] key = "get_arrival_time" -> get_arrival_time(args, context, t)
      [] key \in InheritedFunctions -> Returned([inherited |-> key])
      [] OTHER -> Thrown("agentTools[tool_name] is not a function")

----------------------------------------------------------------------------
(* ContextManager: constructor *)

maxContextAge == 30 * 60 * 1000
maxHistoryLength == 20
maxTokensPerContext == 8000
maxConversationHistory == 10

----------------------------------------------------------------------------
(* The heap of session objects *)

NumRefs == Cardinality(Users) + 3
Refs == 1..NumRefs
NoRef == 0
FreeObj == [free |-> TRUE]

\* st is the record [m |-> userContexts, h |-> heap, log |-> console lines] a
\* store operation works on.
FreshRef(st) == Min({r \in Refs : st.h[r] = FreeObj})

\* The slots of the chat turns in flight.
TurnIds == {1, 2}

\* References still held: by the store's map, and by the turns in flight.
Held(m, inFlight) ==
    ({m[u] : u \in Users} \cup {inFlight[id].context : id \in TurnIds}) \ {NoRef}

\* Objects nobody holds any more are reclaimed.
Collect(st, inFlight) ==
    [st EXCEPT !.h = [r \in Refs |->
                         IF r \in Held(st.m, inFlight) THEN st.h[r] ELSE FreeObj]]

----------------------------------------------------------------------------
(* ContextManager.createNewContext *)

DefaultPreferences ==
    [preferredUnits |-> "metric", maxNearbyStops |-> 5, notificationRadius |-> 500]

NewContext(userId, t) ==
    [userId |-> userId,
     userLocation |-> NULL,
     recentSearches |-> <<>>,
     activeBuses |-> <<>>,
     busRoutes |-> <<>>,
     busStops |-> <<>>,
     messageHistory |-> <<>>,
     conversationHistory |-> <<>>,
     sessionStartTime |-> t,
     lastUpdated |-> t,
     preferences |-> DefaultPreferences]

\* (mutant) the new session takes over the location of the one it replaces
createNewContextKeepsLocation(st, userId, t) ==
    LET r == FreshRef(st)
        location == IF st.m[userId] = NoRef THEN NULL
                    ELSE st.h[st.m[userId]].userLocation
    IN  [st |-> [st EXCEPT !.m[userId] = r,
                           !.h[r] = [NewContext(userId, t) EXCEPT
                                        !.userLocation = location],
                           !.log = Append(@, "Created new context")],
         ref |-> r]

\* Returns the store and the reference of the new object.
createNewContext(st, userId, t) ==
    LET r == FreshRef(st)
    IN  [st |-> [st EXCEPT !.m[userId] = r,
                           !.h[r] = NewContext(userId, t),
                           !.log = Append(@, "Created new context")],
         ref |-> r]

(* ContextManager.getUserContext *)

\* (mutant) the age limit doubled
IsExpiredTwiceTheAge(context, t) == t - context.lastUpdated > 2 * maxContextAge

IsExpired(context, t) == t - context.lastUpdated > maxContextAge

getUserContext(st, userId, t) ==
    IF st.m[userId] = NoRef
    THEN createNewContext(st, userId, t)
    ELSE IF IsExpired(st.h[st.m[userId]], t)
         THEN createNewContext([st EXCEPT !.log = Append(@, "Context expired")],
                               userId, t)
         ELSE [st |-> st, ref |-> st.m[userId]]

----------------------------------------------------------------------------
(* ContextManager.updateContext *)

\* A patch maps keys to entries; an entry is null, undefined or a value.
NullEntry == [kind |-> "null"]
UndefinedEntry == [kind |-> "undefined"]
Value(v) == [kind |-> "value", val |-> v]

\* The keys whose value may be null in a session object.
NullableKeys == {"userLocation"}

\* An object passed as the updates argument.
AsUpdates(obj) ==
    [k \in DOMAIN obj |->
        IF k \in NullableKeys /\ obj[k] = NULL THEN NullEntry ELSE Value(obj[k])]

\* updates[key] !== undefined && updates[key] !== null
ValidKeys(updates) == {k \in DOMAIN updates : updates[k].kind = "value"}

\* (mutant) a null value is assigned like any other value
ObjectAssignNull(context, updates, t) ==
    LET passed == {k \in DOMAIN updates : updates[k].kind # "undefined"}
    IN  [k \in DOMAIN context \cup passed \cup {"lastUpdated"} |->
            IF k = "lastUpdated" THEN t
            ELSE IF k \in passed
                 THEN IF updates[k].kind = "value" THEN updates[k].val ELSE NULL
                 ELSE context[k]]

\* (mutant) the patch is assigned last, so its lastUpdated wins
ObjectAssignPatchLast(context, updates, t) ==
    [k \in DOMAIN context \cup ValidKeys(updates) \cup {"lastUpdated"} |->
        IF k \in ValidKeys(updates) THEN updates[k].val
        ELSE IF k = "lastUpdated" THEN t
        ELSE context[k]]

\* Object.assign(context, validUpdates, { lastUpdated: Date.now() })
ObjectAssign(context, updates, t) ==
    [k \in DOMAIN context \cup ValidKeys(updates) \cup {"lastUpdated"} |->
        IF k = "lastUpdated" THEN t
        ELSE IF k \in ValidKeys(updates) THEN updates[k].val
        ELSE context[k]]

updateContext(st, userId, updates, t) ==
    LET g == getUserContext(st, userId, t)
        context == g.st.h[g.ref]
    IN  [g.st EXCEPT !.m[userId] = g.ref,
                     !.h[g.ref] = ObjectAssign(context, updates, t)]

----------------------------------------------------------------------------
(* ContextManager.truncateHistoryIfNeeded, addMessageToHistory *)

\* Array.prototype.slice(-n)
SliceLast(seq, n) ==
    IF Len(seq) <= n THEN seq ELSE SubSeq(seq, Len(seq) - n + 1, Len(seq))

\* (mutant) the oldest messages are kept and the newest dropped
truncateHistoryKeepsOldest(context) ==
    IF Len(context.messageHistory) > maxHistoryLength
    THEN [context EXCEPT !.messageHistory = SubSeq(@, 1, maxHistoryLength)]
    ELSE context

\* (mutant) one message too many is kept
truncateHistoryKeepsOneMore(context) ==
    IF Len(context.messageHistory) > maxHistoryLength + 1
    THEN [context EXCEPT !.messageHistory = SliceLast(@, maxHistoryLength + 1)]
    ELSE context

truncateHistoryIfNeeded(context) ==
    IF Len(context.messageHistory) > maxHistoryLength
    THEN [context EXCEPT !.messageHistory = SliceLast(@, maxHistoryLength)]
    ELSE context

Message(role, content, t) == [role |-> role, content |-> content, timestamp |-> t]

addMessageToHistory(st, userId, role, content, t) ==
    LET g == getUserContext(st, userId, t)
        pushed == [g.st.h[g.ref] EXCEPT
                      !.messageHistory = Append(@, Message(role, content, t))]
        context == truncateHistoryIfNeeded(pushed)
        st1 == [g.st EXCEPT !.h[g.ref] = context]
    IN  \* this.updateContext(userId, context): the object itself is the patch
        updateContext(st1, userId, AsUpdates(context), t)

----------------------------------------------------------------------------
(* ContextManager.addToConversationHistory *)

Exchange(userMessage, aiResponse, t) ==
    [timestamp |-> t, userMessage |-> userMessage, aiResponse |-> aiResponse]

\* (mutant) of more than 10 exchanges the first 10 are kept
addToConversationHistoryKeepsOldest(st, userId, userMessage, aiResponse, t) ==
    LET g == getUserContext(st, userId, t)
        st1 == addMessageToHistory(g.st, userId, "user", userMessage, t)
        st2 == addMessageToHistory(st1, userId, "assistant", aiResponse, t)
        pushed == Append(st2.h[g.ref].conversationHistory,
                         Exchange(userMessage, aiResponse, t))
        kept == IF Len(pushed) > maxConversationHistory
                THEN SubSeq(pushed, 1, maxConversationHistory)
                ELSE pushed
        context == [st2.h[g.ref] EXCEPT !.conversationHistory = kept]
        st3 == [st2 EXCEPT !.h[g.ref] = context]
    IN  updateContext(st3, userId, AsUpdates(context), t)

addToConversationHistory(st, userId, userMessage, aiResponse, t) ==
    LET g == getUserContext(st, userId, t)
        st1 == addMessageToHistory(g.st, userId, "user", userMessage, t)
        st2 == addMessageToHistory(st1, userId, "assistant", aiResponse, t)
        \* context is the object obtained on entry
        pushed == Append(st2.h[g.ref].conversationHistory,
                         Exchange(userMessage, aiResponse, t))
        kept == IF Len(pushed) > maxConversationHistory
                THEN SliceLast(pushed, maxConversationHistory)
                ELSE pushed
        context == [st2.h[g.ref] EXCEPT !.conversationHistory = kept]
        st3 == [st2 EXCEPT !.h[g.ref] = context]
    IN  updateContext(st3, userId, AsUpdates(context), t)

----------------------------------------------------------------------------
(* ContextManager.estimateTokenCount, estimateTokens *)

\* Math.ceil(text.length / 4), on the length of the text
estimateTokenCount(textLength) ==
    IF textLength = 0 THEN 0 ELSE (textLength + 3) \div 4

\* JSON.stringify(msg).length for a message {role, content, timestamp}:
\* {"role":"<role>","content":<content>,"timestamp":"<24 characters>"}
\* A null content is written null; an undefined content drops the key.
ContentLength(content) ==
    IF IsString(content) THEN 10 + (StrLen(content) + 2) + 1
    ELSE IF content = NULL THEN 10 + 4 + 1
    ELSE 0

StringifyLength(msg) ==
    2 + (7 + Len(msg.role) + 2) + 1 + ContentLength(msg.content) + (12 + 26)

RECURSIVE estimateTokens(_)
estimateTokens(messages) ==
    IF messages = <<>> THEN 0
    ELSE estimateTokenCount(StringifyLength(Head(messages)))
         + estimateTokens(Tail(messages))

(* ContextManager.enforceTokenLimits *)

\* (mutant) the newest message is dropped, not the oldest
RECURSIVE ShiftWhileOverDropsNewest(_)
ShiftWhileOverDropsNewest(processedMessages) ==
    IF Len(processedMessages) > 0
       /\ estimateTokens(processedMessages) > maxTokensPerContext
    THEN ShiftWhileOverDropsNewest(SubSeq(processedMessages, 1,
                                          Len(processedMessages) - 1))
    ELSE processedMessages

\* while (processedMessages.length > 0 && estimateTokens(processedMessages) > max)
\*     processedMessages.shift()
RECURSIVE ShiftWhileOver(_)
ShiftWhileOver(processedMessages) ==
    IF Len(processedMessages) > 0
       /\ estimateTokens(processedMessages) > maxTokensPerContext
    THEN ShiftWhileOver(Tail(processedMessages))
    ELSE processedMessages

enforceTokenLimits(messages) ==
    IF estimateTokens(messages) <= maxTokensPerContext
    THEN messages
    ELSE LET hasSystem == Head(messages).role = "system"
             systemMessage == Head(messages)
             processedMessages ==
                 ShiftWhileOver(IF hasSystem THEN Tail(messages) ELSE messages)
         IN  IF hasSystem
             THEN <<systemMessage>> \o processedMessages
             ELSE processedMessages

(* ContextManager.buildSystemPrompt, getFormattedHistory *)

DecimalLength(n) == IF n < 10 THEN 1 ELSE IF n < 100 THEN 2 ELSE IF n < 1000 THEN 3 ELSE 4

\* The prompt is "Transportation Assistant Context:" and five more lines; its
\* length, newlines escaped as JSON.stringify escapes them, is what the token
\* estimate reads. The localized time takes 21 characters here and the
\* coordinates of the model's locations one digit each.
buildSystemPrompt(context, t) ==
    LET locationInfo == IF context.userLocation # NULL THEN 17 ELSE 12
        minutes == (t - context.sessionStartTime) \div 60000
    IN  JsString("Transportation Assistant Context:",
                 2 + (16 + 21) + 2 + (17 + locationInfo)
                 + 2 + (16 + DecimalLength(Len(context.activeBuses)))
                 + 2 + (20 + DecimalLength(Len(context.busRoutes)))
                 + 2 + (20 + DecimalLength(minutes) + 8))

\* Returns the store and the messages.
getFormattedHistory(st, userId, includeSystem, t) ==
    LET g == getUserContext(st, userId, t)
        context == g.st.h[g.ref]
        systemMessage == Message("system", buildSystemPrompt(context, t), t)
        messages == IF includeSystem
                    THEN <<systemMessage>> \o context.messageHistory
                    ELSE context.messageHistory
    IN  [st |-> g.st, messages |-> enforceTokenLimits(messages)]

----------------------------------------------------------------------------
(* ContextManager.getConversationSummary *)

\* !!context.userLocation
Truthy(location) == location # NULL

getConversationSummary(st, userId, t) ==
    LET g == getUserContext(st, userId, t)
        context == g.st.h[g.ref]
    IN  [st |-> g.st,
         summary |->
            [userId |-> context.userId,
             sessionDurationMinutes |-> (t - context.sessionStartTime) \div (1000 * 60),
             messageCount |-> Len(context.messageHistory),
             lastActivity |-> context.lastUpdated,
             hasLocation |-> Truthy(context.userLocation),
             recentSearchCount |-> Len(context.recentSearches)]]

(* ContextManager.cleanupExpiredContexts *)

\* (mutant) a session is deleted as soon as it is 30 minutes old
cleanupExpiredContextsAtAge(st, t) ==
    [st EXCEPT !.m = [u \in Users |->
               IF st.m[u] # NoRef /\ t - st.h[st.m[u]].lastUpdated >= maxContextAge
               THEN NoRef
               ELSE st.m[u]]]

cleanupExpiredContexts(st, t) ==
    [st EXCEPT !.m = [u \in Users |->
               IF st.m[u] # NoRef /\ t - st.h[st.m[u]].lastUpdated > maxContextAge
               THEN NoRef
               ELSE st.m[u]]]

----------------------------------------------------------------------------
(* AIAgent (src/unnamed/part_002): constructor, isQueryRestricted *)

restrictedWords ==
    <<"badword", "inappropriate", "unsafe_topic", "moovit", "other applications">>
maxRetries == 3
retryDelay == 1000

Refusal == Str("I'm sorry, I can only help with transportation and bus-related queries.")
Apology == Str("I apologize, but I encountered a technical issue. Please try again.")
Fallback ==
    Str("I retrieved the information but encountered an issue formatting the response.")

\* (mutant) the query is compared as it was typed
isQueryRestrictedCaseSensitive(userQuery) ==
    \E i \in DOMAIN restrictedWords : includes(userQuery.s, restrictedWords[i])

isQueryRestricted(userQuery) ==
    LET query == toLowerCase(userQuery.s)
    IN  \E i \in DOMAIN restrictedWords : includes(query, restrictedWords[i])

\* The prompt is a fixed text around four values of the context.
AIAgent_buildSystemPrompt(context, t) ==
    [prompt |-> "transportation assistant",
     currentTime |-> t,
     userLocation |-> context.userLocation,
     activeBuses |-> Len(context.activeBuses),
     busRoutes |-> Len(context.busRoutes)]

----------------------------------------------------------------------------
(* One turn of AIAgent.processQuery *)

\* A completion call ends in one of these ways. A body is malformed when it
\* has no choices[0].message to read the content of.
FailureKinds == {"failure", "timeout", "malformed"}
Failure(kind) == [kind |-> kind]
Content(content) == [kind |-> "content", content |-> content]

IdleTurn ==
    [pc |-> "idle",          \* idle, call1, delay, call2, returned, done
     caller |-> "none",      \* who awaits processQuery: the chat handler or a direct caller
     userId |-> "none",
     message |-> UNDEFINED,  \* userQuery
     context |-> NoRef,      \* the session object processQuery was given
     attempt |-> 0,
     messages |-> <<>>,
     first |-> <<>>,         \* how the first-completion calls ended
     second |-> <<>>,        \* how the second-completion calls ended
     firstCalls |-> 0,       \* first-completion calls made
     secondCalls |-> 0,      \* second-completion calls made
     tools |-> <<>>,         \* tool executions: name, function invoked, result
     delays |-> <<>>,        \* setTimeout delays awaited
     result |-> UNDEFINED,   \* what processQuery resolved to
     threw |-> FALSE,        \* processQuery rejected
     emitted |-> <<>>]       \* events the chat handler emitted to the client

\* lines 286-291: build the messages and call the model
Attempt(turn, context, t) ==
    [turn EXCEPT !.messages =
                     <<[role |-> "system", content |-> AIAgent_buildSystemPrompt(context, t)],
                       [role |-> "user", content |-> turn.message]>>,
                 !.pc = "call1",
                 !.firstCalls = @ + 1]

Resolve(turn, value) == [turn EXCEPT !.pc = "returned", !.result = value]

\* lines 278-291, up to the first await
processQuery(turn, context, t) ==
    IF ~IsString(turn.message)
    THEN [turn EXCEPT !.pc = "returned", !.threw = TRUE]
    ELSE IF isQueryRestricted(turn.message)
    THEN Resolve(turn, Refusal)
    ELSE Attempt(turn, context, t)

\* (mutant) a tool call needs a tool_name only
parseToolCallNameOnly(responseContent) ==
    LET parsed == JSONparse(responseContent)
    IN  IF Threw(parsed) \/ parsed.value = JNull THEN JNull
        ELSE IF Falsy(Prop(parsed.value, "tool_name")) THEN JNull
        ELSE parsed.value

\* lines 294-302: the tool call the text denotes, or null
parseToolCall(responseContent) ==
    LET parsed == JSONparse(responseContent)
    IN  IF Threw(parsed) \/ parsed.value = JNull THEN JNull
        ELSE IF Falsy(Prop(parsed.value, "tool_name"))
                \/ Falsy(Prop(parsed.value, "arguments"))
             THEN JNull
        ELSE parsed.value

\* (mutant) the error result names the tool and drops the exception's message
runToolDropsMessage(tool_name, args, context, t) ==
    LET key == ToText(tool_name)
        found == key \in OwnTools \cup InheritedFunctions \cup InheritedObjects
        call == CallTool(key, args, context, t)
    IN  [name |-> tool_name,
         invoked |-> IF key \in OwnTools \cup InheritedFunctions THEN key ELSE "none",
         result |->
            IF ~found THEN [error |-> "Tool '" \o key \o "' not found."]
            ELSE IF Threw(call) THEN [error |-> "Error executing " \o key]
            ELSE call.value]

\* lines 341-351: the tool's result, and the function that ran ("none": none)
runTool(tool_name, args, context, t) ==
    LET key == ToText(tool_name)
        found == key \in OwnTools \cup InheritedFunctions \cup InheritedObjects
        call == CallTool(key, args, context, t)
    IN  [name |-> tool_name,
         invoked |-> IF key \in OwnTools \cup InheritedFunctions THEN key ELSE "none",
         result |->
            IF ~found THEN [error |-> "Tool '" \o key \o "' not found."]
            ELSE IF Threw(call)
                 THEN [error |-> "Error executing " \o key \o ": " \o call.threw]
            ELSE call.value]

\* (mutant) find_nearest_stops sorts the stop lists of the snapshot themselves
contextAfterToolSortsStops(tool_name, args, context) ==
    IF ToText(tool_name) = "find_nearest_stops" /\ context.userLocation # NULL
    THEN [context EXCEPT !.busStops =
            [i \in 1..Len(@) |->
                [@[i] EXCEPT !.stops =
                    Map(SortByDistance(
                            Map(@, LAMBDA stop :
                                    [name |-> stop.name,
                                     latitude |-> stop.latitude,
                                     longitude |-> stop.longitude,
                                     distance |-> Distance(stop, context.userLocation.lat,
                                                           context.userLocation.lng)])),
                        LAMBDA s : [name |-> s.name, latitude |-> s.latitude,
                                    longitude |-> s.longitude])]]]
    ELSE context

\* lines 20-177 and 341-347: the session object as agentTools[tool_name](args,
\* context) leaves it. The tools read args and context; what they build
\* (allRoutes, allStops, stopsWithDistance, the result) is made of new arrays
\* and objects, and the one in-place operation, sort, is applied to the array
\* that map returned. No tool assigns to context or to an object of it.
contextAfterTool(tool_name, args, context) == context

\* Array.from(map.values()) and Object.fromEntries(map) copy references: an
\* object of the snapshot that is an object of the server's map shows in the
\* map what is written to it through the snapshot.
Shared(live, before, after) ==
    [i \in 1..Len(live) |->
        LET same == {j \in 1..Len(before) : j <= Len(after) /\ before[j] = live[i]}
        IN  IF same # {} THEN after[Min(same)] ELSE live[i]]

\* (mutant) the tool's result is pushed before the record of its invocation
executeToolResultFirst(turn, toolCall, context, t) ==
    LET tool_name == Prop(toolCall, "tool_name")
        args == Prop(toolCall, "arguments")
        run == runTool(tool_name, args, context, t)
    IN  [turn EXCEPT
            !.messages = @ \o
                <<[role |-> "tool", content |-> JSONstringify(run.result),
                   name |-> tool_name],
                  [role |-> "assistant", content |-> NULL,
                   tool_calls |-> <<[id |-> t, type |-> "function",
                                     function |-> [name |-> tool_name,
                                                   arguments |-> JSONstringify(args)]]>>]>>,
            !.tools = Append(@, run),
            !.pc = "call2",
            !.secondCalls = @ + 1]

\* lines 324-360, up to the await of the second completion
executeTool(turn, toolCall, context, t) ==
    LET tool_name == Prop(toolCall, "tool_name")
        args == Prop(toolCall, "arguments")
        run == runTool(tool_name, args, context, t)
    IN  [turn EXCEPT
            !.messages = @ \o
                <<[role |-> "assistant", content |-> NULL,
                   tool_calls |-> <<[id |-> t, type |-> "function",
                                     function |-> [name |-> tool_name,
                                                   arguments |-> JSONstringify(args)]]>>],
                  [role |-> "tool", content |-> JSONstringify(run.result),
                   name |-> tool_name]>>,
            !.tools = Append(@, run),
            !.pc = "call2",
            !.secondCalls = @ + 1]

\* (mutant) every retry waits the base delay
retryDelayFlat(attempt) == retryDelay

\* line 318
retryDelayFor(attempt) == retryDelay * attempt

\* lines 309-320: the first completion failed
firstCompletionFailed(turn) ==
    LET attempt == turn.attempt + 1
    IN  IF attempt >= maxRetries
        THEN Resolve([turn EXCEPT !.attempt = attempt], Apology)
        ELSE [turn EXCEPT !.attempt = attempt,
                          !.pc = "delay",
                          !.delays = Append(@, retryDelayFor(attempt))]

\* lines 291-320, from the first completion's end to the next await or return
firstCompletion(turn, outcome, context, t) ==
    LET seen == [turn EXCEPT !.first = Append(@, outcome)]
    IN  IF outcome.kind \in FailureKinds THEN firstCompletionFailed(seen)
        ELSE LET toolCall == parseToolCall(outcome.content)
             IN  IF toolCall # JNull
                 THEN executeTool(seen, toolCall, context, t)
                 ELSE Resolve(seen, outcome.content)

\* (mutant) a failed second completion is retried like a first one
secondCompletionRetried(turn, outcome) ==
    LET seen == [turn EXCEPT !.second = Append(@, outcome)]
    IN  IF outcome.kind \in FailureKinds THEN firstCompletionFailed(seen)
        ELSE Resolve(seen, outcome.content)

\* (mutant) a second completion that reads as a tool call starts another round
secondCompletionDispatches(turn, outcome) ==
    LET seen == [turn EXCEPT !.second = Append(@, outcome)]
    IN  IF outcome.kind \in FailureKinds THEN Resolve(seen, Fallback)
        ELSE IF parseToolCall(outcome.content) # JNull
        THEN [seen EXCEPT !.tools = Append(@, Head(@)),
                          !.pc = "returned",
                          !.result = Fallback]
        ELSE Resolve(seen, outcome.content)

\* lines 359-365
secondCompletion(turn, outcome) ==
    LET seen == [turn EXCEPT !.second = Append(@, outcome)]
    IN  IF outcome.kind \in FailureKinds THEN Resolve(seen, Fallback)
        ELSE Resolve(seen, outcome.content)

----------------------------------------------------------------------------
(* The state the store operations start from and end in *)

Store == [m |-> userContexts, h |-> heap, log |-> <<>>]

\* The session object the map holds for userId (FreeObj when it holds none).
Session(userId) ==
    IF userContexts[userId] = NoRef THEN FreeObj ELSE heap[userContexts[userId]]

HasSession(userId) == userContexts[userId] # NoRef

\* A store operation alone: the turns and the server's maps stay as they are.
Commit(st) ==
    LET c == Collect(st, turns)
    IN  /\ userContexts' = c.m /\ heap' = c.h /\ log' = c.log
        /\ UNCHANGED <<sweptContexts, agentVars>>

\* A step of a turn: the store as the step leaves it, and the turns after it.
CommitTurns(st, after) ==
    LET c == Collect(st, after)
    IN  /\ userContexts' = c.m /\ heap' = c.h /\ log' = c.log
        /\ turns' = after
        /\ UNCHANGED <<sweptContexts, extVars>>

Call(op, userId, arg) == [op |-> op, userId |-> userId, arg |-> arg]

\* A connection table entry that is not there.
NoConnection == [none |-> TRUE]

SocketIds == {"s1", "s2"}

DbCallIds == {1, 2}

\* A db.updateBusLocation call that has not started or has returned
IdleDbCall ==
    [pc |-> "idle",      \* idle, stops (getBusStops), select, insert
     busId |-> "", deviceId |-> "", busLat |-> 0, busLon |-> 0,
     stops |-> <<>>,     \* the rows getBusStops returned
     stop |-> 0]         \* the row the loop is at

\* part_001 844-848
InitialBackgroundConfig ==
    [locationUpdateInterval |-> 5000, maxRetries |-> 3, timeoutDuration |-> 10000]

\* part_001 851-858
InitialBackgroundState ==
    [isActive |-> FALSE, intervalId |-> NULL, lastUpdate |-> NULL, retryCount |-> 0,
     busId |-> NULL, deviceId |-> NULL]

CaptureIds == {1, 2}

\* A captureLocationInBackground call that is not awaiting a position. While
\* one awaits, busId and deviceId are those of backgroundState at the moment
\* the call began: the call itself keeps no such copy.
IdleCapture == [pc |-> "idle", busId |-> NULL, deviceId |-> NULL]

\* No client has connected, nothing has been broadcast, the tables are empty,
\* no database call is in flight, and the background runner has just loaded.
InitExt ==
    /\ activeConnections = [s \in SocketIds |-> NoConnection]
    /\ broadcast = <<>>
    /\ db = [active_buses |-> <<>>, proximity_events |-> <<>>]
    /\ dbCalls = [c \in DbCallIds |-> IdleDbCall]
    /\ backgroundState = InitialBackgroundState
    /\ BACKGROUND_CONFIG = InitialBackgroundConfig
    /\ intervals = {}
    /\ timerIds = 0
    /\ captures = [c \in CaptureIds |-> IdleCapture]
    /\ posted = <<>>
    /\ failedInARow = 0

NoCall == Call("none", "none", <<>>)

InitStore ==
    /\ userContexts = [u \in Users |-> NoRef]
    /\ heap = [r \in Refs |-> FreeObj]
    /\ now = 0
    /\ appended = 0
    /\ lastCall = NoCall
    /\ log = <<>>
    /\ ret = UNDEFINED
    /\ activeBuses = <<>>
    /\ busRoutes = <<>>
    /\ busStops = <<>>
    /\ turns = [id \in TurnIds |-> IdleTurn]
    /\ served = 0
    /\ sweptContexts = [u \in Users |-> NoRef]
    /\ InitExt

----------------------------------------------------------------------------
(* Store operations as actions *)

AddMessageToHistory(userId, role, content) ==
    /\ Commit(addMessageToHistory(Store, userId, role, content, now))
    /\ appended' = appended + 1
    /\ lastCall' = Call("addMessageToHistory", userId, <<role, content>>)
    /\ ret' = UNDEFINED
    /\ UNCHANGED now

AddToConversationHistory(userId, userMessage, aiResponse) ==
    /\ Commit(addToConversationHistory(Store, userId, userMessage, aiResponse, now))
    /\ appended' = appended + 2
    /\ lastCall' = Call("addToConversationHistory", userId, <<userMessage, aiResponse>>)
    /\ ret' = UNDEFINED
    /\ UNCHANGED now

GetUserContext(userId) ==
    LET g == getUserContext(Store, userId, now)
    IN  /\ Commit(g.st)
        /\ lastCall' = Call("getUserContext", userId, <<>>)
        /\ ret' = g.st.h[g.ref]
        /\ UNCHANGED <<now, appended>>

\* POST /api/context/:userId/reset
CreateNewContext(userId) ==
    /\ Commit(createNewContext(Store, userId, now).st)
    /\ lastCall' = Call("createNewContext", userId, <<>>)
    /\ ret' = UNDEFINED
    /\ UNCHANGED <<now, appended>>

UpdateContext(userId, updates) ==
    /\ Commit(updateContext(Store, userId, updates, now))
    /\ lastCall' = Call("updateContext", userId, updates)
    /\ ret' = UNDEFINED
    /\ UNCHANGED <<now, appended>>

GetFormattedHistory(userId, includeSystem) ==
    LET g == getFormattedHistory(Store, userId, includeSystem, now)
    IN  /\ Commit(g.st)
        /\ lastCall' = Call("getFormattedHistory", userId, includeSystem)
        /\ ret' = g.messages
        /\ UNCHANGED <<now, appended>>

GetConversationSummary(userId) ==
    LET g == getConversationSummary(Store, userId, now)
    IN  /\ Commit(g.st)
        /\ lastCall' = Call("getConversationSummary", userId, <<>>)
        /\ ret' = g.summary
        /\ UNCHANGED <<now, appended>>

\* cleanupExpiredContexts, called on the store of server.js
CleanupExpiredContexts ==
    /\ Commit(cleanupExpiredContexts(Store, now))
    /\ lastCall' = Call("cleanupExpiredContexts", "none", <<>>)
    /\ ret' = UNDEFINED
    /\ UNCHANGED <<now, appended>>

\* The times a run passes through: up to MaxTicks milliseconds, before and
\* after one lapse of maxContextAge.
ClockValues == {a + b * maxContextAge : a \in 0..MaxTicks, b \in 0..1}

\* Time passes between two handlers.
Tick(d) ==
    /\ now + d \in ClockValues
    /\ now' = now + d
    /\ lastCall' = NoCall
    /\ log' = <<>>
    /\ ret' = UNDEFINED
    /\ UNCHANGED <<userContexts, sweptContexts, extVars, heap, appended>>
    /\ UNCHANGED agentVars

----------------------------------------------------------------------------
(* Spec: the store's operations, called in any order as time passes *)

\* One millisecond, and the age at which a session expires.
TickSteps == {1, maxContextAge}

\* The updates the callers pass.
Patches ==
    { <<>>,
      [userLocation |-> NullEntry],
      [userLocation |-> UndefinedEntry],
      [userLocation |-> Value(Loc1)],
      [userLocation |-> Value(Loc2)],
      [lastUpdated |-> Value(0)],
      [userLocation |-> Value(Loc2), preferences |-> NullEntry,
       recentSearches |-> UndefinedEntry] }

StoreAppend ==
    \E userId \in Callers, role \in Roles :
        /\ appended < MaxStoreAppends
        /\ AddMessageToHistory(userId, role, Text(appended + 1))

StoreExchange ==
    \E userId \in Callers :
        /\ appended + 1 < MaxStoreAppends
        /\ AddToConversationHistory(userId, Text(appended + 1), Text(appended + 2))

Next ==
    \/ \E userId \in Callers : GetUserContext(userId)
    \/ \E userId \in Callers : CreateNewContext(userId)
    \/ \E userId \in Callers, updates \in Patches : UpdateContext(userId, updates)
    \/ StoreAppend
    \/ StoreExchange
    \/ \E userId \in Callers, includeSystem \in BOOLEAN :
           GetFormattedHistory(userId, includeSystem)
    \/ \E userId \in Callers : GetConversationSummary(userId)
    \/ CleanupExpiredContexts
    \/ \E d \in TickSteps : Tick(d)

Spec == InitStore /\ [][Next]_vars

----------------------------------------------------------------------------
(* SpecHistory: one user's history under a long run of appends *)

HistoryAppend ==
    /\ appended < MaxAppends
    /\ AddMessageToHistory("u1", "user", Text(appended + 1))

HistoryExchange ==
    /\ appended + 1 < MaxAppends
    /\ AddToConversationHistory("u1", Text(appended + 1), Text(appended + 2))

NextHistory == HistoryAppend \/ HistoryExchange

SpecHistory == InitStore /\ [][NextHistory]_vars

----------------------------------------------------------------------------
(* SpecExchanges: a long run of exchanges of one user, with messages appended
   in between *)

\* The exchanges are numbered from 1: the k-th has Text(k) as the user's
\* message and as the reply. A message appended outside any exchange has the
\* text Aside(n), n the number of exchanges made before it, so that the last
\* call tells how many exchanges the run has made.
Aside(n) == Text(1000 + n)

Exchanges ==
    CASE lastCall.op = "addToConversationHistory" -> lastCall.arg[1].pad
      [] lastCall.op = "addMessageToHistory" -> lastCall.arg[2].pad - 1000
      [] OTHER -> 0

ExchangeAppend ==
    /\ Exchanges < MaxExchanges
    /\ AddToConversationHistory("u1", Text(Exchanges + 1), Text(Exchanges + 1))

ExchangeMessage ==
    /\ appended - 2 * Exchanges < MaxExchangeMessages
    /\ AddMessageToHistory("u1", "user", Aside(Exchanges))

NextExchanges == ExchangeAppend \/ ExchangeMessage

SpecExchanges == InitStore /\ [][NextExchanges]_vars

----------------------------------------------------------------------------
(* SpecTokens: getFormattedHistory over histories of short and long messages *)

\* Texts of 13, 15933, 31893 and 32103 characters: about 20, 4000, 7990 and
\* 8043 estimated tokens once in a message.
TokenTexts == {Text(10), Text(15930), Text(31890), Text(32100)}

TokenMessages ==
    {Message(role, content, 0) : role \in Roles, content \in TokenTexts}

RECURSIVE SeqsUpTo(_, _)
SeqsUpTo(S, n) ==
    IF n = 0 THEN {<<>>}
    ELSE LET shorter == SeqsUpTo(S, n - 1)
         IN  shorter \cup {Append(q, x) : q \in {p \in shorter : Len(p) = n - 1}, x \in S}

\* The session of u1 after the messages of some history were appended to it.
InitTokens ==
    \E history \in SeqsUpTo(TokenMessages, MaxTokenMessages) :
        /\ userContexts = [u \in Users |-> IF u = "u1" THEN 1 ELSE NoRef]
        /\ heap = [r \in Refs |->
                     IF r = 1
                     THEN [NewContext("u1", 0) EXCEPT !.messageHistory = history]
                     ELSE FreeObj]
        /\ now = 0
        /\ appended = Len(history)
        /\ lastCall = NoCall
        /\ log = <<>>
        /\ ret = UNDEFINED
        /\ activeBuses = <<>>
        /\ busRoutes = <<>>
        /\ busStops = <<>>
        /\ turns = [id \in TurnIds |-> IdleTurn]
        /\ served = 0
        /\ sweptContexts = [u \in Users |-> NoRef]
        /\ InitExt

NextTokens ==
    \E includeSystem \in BOOLEAN : GetFormattedHistory("u1", includeSystem)

SpecTokens == InitTokens /\ [][NextTokens]_vars

----------------------------------------------------------------------------
(* The steps of a turn as actions *)

Turn(id) == turns[id]

\* The session object the turn's processQuery was given, as it is now.
TurnContext(id) == heap[Turn(id).context]

\* A direct call of aiAgent.processQuery(userQuery, context).
ProcessQuery(id, userQuery, context) ==
    LET r == FreshRef(Store)
        turn == [IdleTurn EXCEPT !.caller = "direct", !.message = userQuery,
                                 !.context = r]
    IN  /\ Turn(id).pc \in {"idle", "done"}
        /\ CommitTurns([Store EXCEPT !.h[r] = context],
                       [turns EXCEPT ![id] = processQuery(turn, context, now)])
        /\ served' = served + 1
        /\ lastCall' = Call("processQuery", "none", userQuery)
        /\ ret' = UNDEFINED
        /\ UNCHANGED <<now, appended, activeBuses, busRoutes, busStops>>

\* The first completion call of the turn ends.
FirstCompletion(id, outcome) ==
    LET before == TurnContext(id)
        toolCall == IF outcome.kind = "content" THEN parseToolCall(outcome.content)
                    ELSE JNull
        after == IF toolCall = JNull THEN before
                 ELSE contextAfterTool(Prop(toolCall, "tool_name"),
                                       Prop(toolCall, "arguments"), before)
    IN  /\ Turn(id).pc = "call1"
        /\ turns' = [turns EXCEPT ![id] = firstCompletion(@, outcome, before, now)]
        /\ heap' = [heap EXCEPT ![Turn(id).context] = after]
        /\ activeBuses' = Shared(activeBuses, before.activeBuses, after.activeBuses)
        /\ busRoutes' = Shared(busRoutes, before.busRoutes, after.busRoutes)
        /\ busStops' = Shared(busStops, before.busStops, after.busStops)
        /\ UNCHANGED <<userContexts, sweptContexts, extVars, now, appended, lastCall, log, ret,
                       served>>

\* The retry timer of the turn fires.
RetryTimer(id) ==
    /\ Turn(id).pc = "delay"
    /\ turns' = [turns EXCEPT ![id] = Attempt(@, TurnContext(id), now)]
    /\ UNCHANGED <<storeVars, activeBuses, busRoutes, busStops, served, extVars>>

\* The second completion call of the turn ends.
SecondCompletion(id, outcome) ==
    /\ Turn(id).pc = "call2"
    /\ turns' = [turns EXCEPT ![id] = secondCompletion(@, outcome)]
    /\ UNCHANGED <<storeVars, activeBuses, busRoutes, busStops, served, extVars>>

\* The direct caller receives what processQuery resolved to.
QueryReturns(id) ==
    /\ Turn(id).pc = "returned"
    /\ Turn(id).caller = "direct"
    /\ CommitTurns(Store, [turns EXCEPT ![id].pc = "done", ![id].context = NoRef])
    /\ lastCall' = NoCall
    /\ ret' = Turn(id).result
    /\ UNCHANGED <<now, appended, activeBuses, busRoutes, busStops, served>>

\* userLocation || context.userLocation
LocationEntry(userLocation, context) ==
    IF userLocation # UNDEFINED THEN Value(userLocation)
    ELSE IF context.userLocation = NULL THEN NullEntry
    ELSE Value(context.userLocation)

\* A turn between the handler's await and its resumption.
InFlight(turn) == turn.pc \in {"call1", "delay", "call2", "returned"}

\* (mutant) while a turn of the user is in flight the history is left to that
\* turn: the handler does not append the new message on entry
ChatMessageOneTurnPerUser(id, data) ==
    LET g == getUserContext(Store, data.userId, now)
        contextUpdates ==
            [userLocation |-> LocationEntry(data.userLocation, g.st.h[g.ref]),
             activeBuses |-> Value(activeBuses),
             busRoutes |-> Value(busRoutes),
             busStops |-> Value(busStops),
             lastActivity |-> Value(now)]
        updated == updateContext(g.st, data.userId, contextUpdates, now)
        locked == \E other \in TurnIds :
                      InFlight(Turn(other)) /\ Turn(other).userId = data.userId
        st == IF locked THEN updated
              ELSE addMessageToHistory(updated, data.userId, "user", data.message, now)
        turn == [IdleTurn EXCEPT !.caller = "handler", !.userId = data.userId,
                                 !.message = data.message, !.context = g.ref]
    IN  /\ Turn(id).pc \in {"idle", "done"}
        /\ CommitTurns(st, [turns EXCEPT ![id] = processQuery(turn, st.h[g.ref], now)])
        /\ served' = served + 1
        /\ appended' = appended + 1
        /\ lastCall' = Call("ai_chat_message", data.userId, data)
        /\ ret' = UNDEFINED
        /\ UNCHANGED <<now, activeBuses, busRoutes, busStops>>

\* server.js 334-358: the ai_chat_message handler, up to its await
ChatMessage(id, data) ==
    LET g == getUserContext(Store, data.userId, now)
        contextUpdates ==
            [userLocation |-> LocationEntry(data.userLocation, g.st.h[g.ref]),
             activeBuses |-> Value(activeBuses),
             busRoutes |-> Value(busRoutes),
             busStops |-> Value(busStops),
             lastActivity |-> Value(now)]
        updated == updateContext(g.st, data.userId, contextUpdates, now)
        st == addMessageToHistory(updated, data.userId, "user", data.message, now)
        turn == [IdleTurn EXCEPT !.caller = "handler", !.userId = data.userId,
                                 !.message = data.message, !.context = g.ref]
    IN  /\ Turn(id).pc \in {"idle", "done"}
        /\ CommitTurns(st, [turns EXCEPT ![id] = processQuery(turn, st.h[g.ref], now)])
        /\ served' = served + 1
        /\ appended' = appended + 1
        /\ lastCall' = Call("ai_chat_message", data.userId, data)
        /\ ret' = UNDEFINED
        /\ UNCHANGED <<now, activeBuses, busRoutes, busStops>>

\* (mutant) the handler puts the session object it holds back into the store
\* before it appends the reply
ChatResponseOnHeldSession(id) ==
    LET turn == Turn(id)
        held == [Store EXCEPT !.m[turn.userId] = turn.context]
        answered == addMessageToHistory(held, turn.userId, "assistant", turn.result, now)
        st == addToConversationHistory(answered, turn.userId, turn.message,
                                       turn.result, now)
        g == getConversationSummary(st, turn.userId, now)
        response == [event |-> "ai_chat_response", userId |-> turn.userId,
                     message |-> turn.result, sessionInfo |-> g.summary,
                     contextActive |-> TRUE]
        error == [event |-> "ai_chat_error", userId |-> turn.userId,
                  error |-> "I encountered a technical issue. Please try again.",
                  canRetry |-> TRUE]
    IN  /\ turn.pc = "returned"
        /\ turn.caller = "handler"
        /\ IF turn.threw
           THEN /\ CommitTurns(Store, [turns EXCEPT ![id].pc = "done",
                                                    ![id].context = NoRef,
                                                    ![id].emitted = Append(@, error)])
                /\ UNCHANGED appended
           ELSE /\ CommitTurns(g.st, [turns EXCEPT ![id].pc = "done",
                                                   ![id].context = NoRef,
                                                   ![id].emitted = Append(@, response)])
                /\ appended' = appended + 3
        /\ lastCall' = Call("ai_chat_response", turn.userId, <<>>)
        /\ ret' = UNDEFINED
        /\ UNCHANGED <<now, activeBuses, busRoutes, busStops, served>>

\* server.js 358-386: the handler after its await
ChatResponse(id) ==
    LET turn == Turn(id)
        answered == addMessageToHistory(Store, turn.userId, "assistant", turn.result, now)
        st == addToConversationHistory(answered, turn.userId, turn.message,
                                       turn.result, now)
        g == getConversationSummary(st, turn.userId, now)
        response == [event |-> "ai_chat_response", userId |-> turn.userId,
                     message |-> turn.result, sessionInfo |-> g.summary,
                     contextActive |-> TRUE]
        error == [event |-> "ai_chat_error", userId |-> turn.userId,
                  error |-> "I encountered a technical issue. Please try again.",
                  canRetry |-> TRUE]
    IN  /\ turn.pc = "returned"
        /\ turn.caller = "handler"
        /\ IF turn.threw
           THEN /\ CommitTurns(Store, [turns EXCEPT ![id].pc = "done",
                                                    ![id].context = NoRef,
                                                    ![id].emitted = Append(@, error)])
                /\ UNCHANGED appended
           ELSE /\ CommitTurns(g.st, [turns EXCEPT ![id].pc = "done",
                                                   ![id].context = NoRef,
                                                   ![id].emitted = Append(@, response)])
                /\ appended' = appended + 3
        /\ lastCall' = Call("ai_chat_response", turn.userId, <<>>)
        /\ ret' = UNDEFINED
        /\ UNCHANGED <<now, activeBuses, busRoutes, busStops, served>>

----------------------------------------------------------------------------
(* What the server's maps hold once a driver has reported a bus and its route *)

SampleStops ==
    <<[name |-> "A", latitude |-> 1, longitude |-> 1],
      [name |-> "B", latitude |-> 2, longitude |-> 1],
      [name |-> "C", latitude |-> 3, longitude |-> 1],
      [name |-> "D", latitude |-> 4, longitude |-> 1]>>

SampleBus ==
    [deviceId |-> "unknown", busId |-> "B1", latitude |-> 2, longitude |-> 1,
     accuracy |-> UNDEFINED, heading |-> UNDEFINED, speed |-> 12, lastUpdate |-> 0,
     serverReceivedAt |-> 0, localTime |-> UNDEFINED, routeInfo |-> NULL,
     routeGeometry |-> NULL]

SampleRoute ==
    [busId |-> "B1", deviceId |-> UNDEFINED, parsedStops |-> SampleStops,
     stopCount |-> Len(SampleStops), lastUpdated |-> 0, serverReceivedAt |-> 0]

\* The completions the model gives.
ModelTexts ==
    {PlainText, NumberText, NullText, NoArgumentsText, NoToolNameText, FindRoutesText,
     BusDetailsText, NearestStopsText, ArrivalTimeText, MissingArgumentText,
     UnknownToolText, InheritedToolText, ProtoToolText, StringArgumentsText,
     NumberToolNameText}

FirstOutcomes ==
    {Failure(kind) : kind \in FailureKinds}
    \cup {Content(Str(text)) : text \in ModelTexts}
    \cup {Content(NULL), Content(UNDEFINED)}

SecondOutcomes ==
    {Failure(kind) : kind \in FailureKinds}
    \cup {Content(Str(PlainText)), Content(Str(FindRoutesText)), Content(NULL)}

\* What users type; the last three hold a term of restrictedWords.
PlainQuery == Str("When is the next bus?")
RestrictedQueries ==
    {Str("is Moovit faster?"), Str("Any OTHER APPLICATIONS?"), Str("unsafe_topic")}
Queries == {PlainQuery, UNDEFINED} \cup RestrictedQueries

----------------------------------------------------------------------------
(* SpecAgent: processQuery, called again and again with sessions of two kinds *)

\* A new session, and one the chat handler has filled from the server's maps.
AgentContexts ==
    {NewContext("u1", 0),
     [NewContext("u1", 0) EXCEPT
         !.userLocation = Loc1,
         !.activeBuses = <<SampleBus>>,
         !.busRoutes = <<SampleRoute>>,
         !.busStops = <<[busId |-> "B1", stops |-> SampleStops]>>]}

NextAgent ==
    \/ \E userQuery \in Queries, context \in AgentContexts :
           served < MaxQueries /\ ProcessQuery(1, userQuery, context)
    \/ \E outcome \in FirstOutcomes : FirstCompletion(1, outcome)
    \/ RetryTimer(1)
    \/ \E outcome \in SecondOutcomes : SecondCompletion(1, outcome)
    \/ QueryReturns(1)

SpecAgent == InitStore /\ [][NextAgent]_vars

\* SpecAgentLive: the same, where every model call ends (axios gives up after
\* 30 seconds, part_002:391) and every retry timer fires.
SpecAgentLive ==
    /\ InitStore
    /\ [][NextAgent]_vars
    /\ WF_vars(\E outcome \in FirstOutcomes : FirstCompletion(1, outcome))
    /\ WF_vars(RetryTimer(1))
    /\ WF_vars(\E outcome \in SecondOutcomes : SecondCompletion(1, outcome))

----------------------------------------------------------------------------
(* SpecChat: chat messages of one user, served by the handler *)

\* The server's maps are empty, or hold the bus and route a driver reported.
InitChat ==
    /\ userContexts = [u \in Users |-> NoRef]
    /\ heap = [r \in Refs |-> FreeObj]
    /\ now = 0
    /\ appended = 0
    /\ lastCall = NoCall
    /\ log = <<>>
    /\ ret = UNDEFINED
    /\ \E reported \in BOOLEAN :
        /\ activeBuses = IF reported THEN <<SampleBus>> ELSE <<>>
        /\ busRoutes = IF reported THEN <<SampleRoute>> ELSE <<>>
        /\ busStops = IF reported THEN <<[busId |-> "B1", stops |-> SampleStops]>>
                      ELSE <<>>
    /\ turns = [id \in TurnIds |-> IdleTurn]
    /\ served = 0
    /\ sweptContexts = [u \in Users |-> NoRef]
    /\ InitExt

ChatData ==
    [userId : {"u1"},
     message : {PlainQuery, Str("is Moovit faster?"), UNDEFINED},
     userLocation : {UNDEFINED, Loc1}]

\* Every way a model call ends, and a completion for every way a tool ends:
\* no tool, a result, an unknown tool, a thrown error.
ChatFirstOutcomes ==
    {Failure(kind) : kind \in FailureKinds}
    \cup {Content(Str(text)) :
             text \in {PlainText, FindRoutesText, UnknownToolText, MissingArgumentText}}
    \cup {Content(NULL)}

ChatSecondOutcomes ==
    {Failure(kind) : kind \in FailureKinds}
    \cup {Content(Str(PlainText)), Content(UNDEFINED)}

NextChat ==
    \/ \E data \in ChatData : served < MaxTurns /\ ChatMessage(1, data)
    \/ \E outcome \in ChatFirstOutcomes : FirstCompletion(1, outcome)
    \/ RetryTimer(1)
    \/ \E outcome \in ChatSecondOutcomes : SecondCompletion(1, outcome)
    \/ ChatResponse(1)

SpecChat == InitChat /\ [][NextChat]_vars

----------------------------------------------------------------------------
(* SpecFrame: turns of one user in which each of the tools runs on the snapshot
   the handler took of the server's maps *)

FrameData ==
    [userId : {"u1"}, message : {PlainQuery}, userLocation : {UNDEFINED, Loc2}]

\* A failed call, a plain answer, and a call of each tool: the four of
\* agentTools, one that throws, one that is unknown and one that is inherited.
FrameFirstOutcomes ==
    {Failure("failure")}
    \cup {Content(Str(text)) :
             text \in {PlainText, FindRoutesText, BusDetailsText, NearestStopsText,
                       ArrivalTimeText, MissingArgumentText, UnknownToolText,
                       InheritedToolText}}

FrameSecondOutcomes == {Failure("timeout"), Content(Str(PlainText))}

NextFrame ==
    \/ \E data \in FrameData : served < MaxTurns /\ ChatMessage(1, data)
    \/ \E outcome \in FrameFirstOutcomes : FirstCompletion(1, outcome)
    \/ RetryTimer(1)
    \/ \E outcome \in FrameSecondOutcomes : SecondCompletion(1, outcome)
    \/ ChatResponse(1)

SpecFrame == InitChat /\ [][NextFrame]_vars

----------------------------------------------------------------------------
(* SpecOverlap: chat messages of one user that arrive while an earlier one is
   being answered *)

\* The message the user sends on a socket event, and the reply the model gives
\* to it: the messages and the replies of a run differ from one another.
OverlapData(k) == [userId |-> "u1", message |-> Text(k), userLocation |-> UNDEFINED]

OverlapReply(id) == JsString("reply", id)

OverlapFirstOutcomes(id) ==
    {Failure("failure"), Content(OverlapReply(id)), Content(Str(FindRoutesText))}

OverlapSecondOutcomes(id) == {Failure("timeout"), Content(OverlapReply(id))}

NextOverlap ==
    \/ \E id \in TurnIds :
           served < MaxOverlapTurns /\ ChatMessage(id, OverlapData(served + 1))
    \/ \E id \in TurnIds :
           \E outcome \in OverlapFirstOutcomes(id) : FirstCompletion(id, outcome)
    \/ \E id \in TurnIds : RetryTimer(id)
    \/ \E id \in TurnIds :
           \E outcome \in OverlapSecondOutcomes(id) : SecondCompletion(id, outcome)
    \/ \E id \in TurnIds : ChatResponse(id)

SpecOverlap == InitStore /\ [][NextOverlap]_vars

----------------------------------------------------------------------------
(* SpecRace: a user's turn, while the user's session is reset, grows old and is
   swept *)

RaceData == [userId : {"u1"}, message : {PlainQuery}, userLocation : {Loc1}]

RaceFirstOutcomes ==
    {Failure("failure"), Content(Str(PlainText)), Content(Str(FindRoutesText))}

RaceSecondOutcomes == {Failure("timeout"), Content(Str(PlainText))}

\* The times of a run: the start, a millisecond later, the age limit and a
\* millisecond past it.
RaceClock == {0, 1, maxContextAge, maxContextAge + 1}

NextRace ==
    \/ \E data \in RaceData : served < MaxRaceTurns /\ ChatMessage(1, data)
    \/ \E outcome \in RaceFirstOutcomes : FirstCompletion(1, outcome)
    \/ RetryTimer(1)
    \/ \E outcome \in RaceSecondOutcomes : SecondCompletion(1, outcome)
    \/ ChatResponse(1)
    \/ CreateNewContext("u1")
    \/ CleanupExpiredContexts
    \/ \E d \in TickSteps : now + d \in RaceClock /\ Tick(d)

SpecRace == InitStore /\ [][NextRace]_vars

----------------------------------------------------------------------------
(* SpecSnapshot: chat messages of one user while drivers report their buses
   and routes *)

\* Map.prototype.set on a map of records keyed by busId: the value of a key
\* the map holds is replaced in place, a new key goes to the end.
MapSet(map, busId, value) ==
    IF \E i \in 1..Len(map) : map[i].busId = busId
    THEN [i \in 1..Len(map) |-> IF map[i].busId = busId THEN value ELSE map[i]]
    ELSE Append(map, value)

\* server.js 97-171: the driver_location_update handler (the device table and
\* the broadcast are left out)
DriverLocationUpdate(data) ==
    LET bus == [deviceId |-> "unknown", busId |-> data.busId,
                latitude |-> data.latitude, longitude |-> data.longitude,
                accuracy |-> UNDEFINED, heading |-> UNDEFINED, speed |-> data.speed,
                lastUpdate |-> now, serverReceivedAt |-> now,
                localTime |-> UNDEFINED, routeInfo |-> NULL, routeGeometry |-> NULL]
    IN  /\ IF data.latitude = 0 \/ data.longitude = 0 \/ data.busId = ""
           THEN UNCHANGED activeBuses
           ELSE activeBuses' = MapSet(activeBuses, data.busId, bus)
        /\ lastCall' = Call("driver_location_update", data.busId, data)
        /\ ret' = UNDEFINED
        /\ UNCHANGED <<userContexts, sweptContexts, extVars, heap, now, appended, log,
                       busRoutes, busStops, turns, served>>

\* server.js 233-292: the bus_route_update handler (the broadcasts are left
\* out); data.rawStops is a list of stop objects, which parseBusStops keeps
\* when name, latitude and longitude are truthy
BusRouteUpdate(data) ==
    LET parsedStops == SelectSeq(data.rawStops,
                                 LAMBDA stop : /\ stop.name # ""
                                               /\ stop.latitude # 0
                                               /\ stop.longitude # 0)
        route == [busId |-> data.busId, deviceId |-> UNDEFINED,
                  parsedStops |-> parsedStops, stopCount |-> Len(parsedStops),
                  lastUpdated |-> now, serverReceivedAt |-> now]
    IN  /\ IF data.busId = "" \/ data.rawStops = <<>>
           THEN UNCHANGED <<busStops, busRoutes>>
           ELSE /\ busStops' = MapSet(busStops, data.busId,
                                      [busId |-> data.busId, stops |-> parsedStops])
                /\ busRoutes' = MapSet(busRoutes, data.busId, route)
        /\ lastCall' = Call("bus_route_update", data.busId, data)
        /\ ret' = UNDEFINED
        /\ UNCHANGED <<userContexts, sweptContexts, extVars, heap, now, appended, log,
                       activeBuses, turns, served>>

\* What a driver reports: a position of bus B1, a report without a latitude,
\* and the stops of bus B1, one of them without a latitude.
DriverData ==
    {[busId |-> "B1", latitude |-> 2, longitude |-> 1, speed |-> 12],
     [busId |-> "B1", latitude |-> 0, longitude |-> 1, speed |-> 12]}

RouteData ==
    {[busId |-> "B1", rawStops |-> SampleStops],
     [busId |-> "B1",
      rawStops |-> <<[name |-> "A", latitude |-> 1, longitude |-> 1],
                     [name |-> "E", latitude |-> 0, longitude |-> 1]>>]}

SnapshotData == [userId |-> "u1", message |-> PlainQuery, userLocation |-> UNDEFINED]

SnapshotFirstOutcomes == {Content(Str(PlainText)), Content(Str(BusDetailsText))}

SnapshotSecondOutcomes == {Content(Str(PlainText))}

NextSnapshot ==
    \/ \E id \in TurnIds : served < MaxSnapshotTurns /\ ChatMessage(id, SnapshotData)
    \/ \E id \in TurnIds :
           \E outcome \in SnapshotFirstOutcomes : FirstCompletion(id, outcome)
    \/ \E id \in TurnIds :
           \E outcome \in SnapshotSecondOutcomes : SecondCompletion(id, outcome)
    \/ \E id \in TurnIds : ChatResponse(id)
    \/ \E data \in DriverData : DriverLocationUpdate(data)
    \/ \E data \in RouteData : BusRouteUpdate(data)

SpecSnapshot == InitStore /\ [][NextSnapshot]_vars

----------------------------------------------------------------------------
(* SpecSockets: clients connect, report and follow buses, and disconnect *)

\* Map.prototype.delete on a map of records keyed by busId
MapDelete(map, busId) == SelectSeq(map, LAMBDA entry : entry.busId # busId)

MapHas(map, busId) == \E i \in 1..Len(map) : map[i].busId = busId

Connected(socketId) == activeConnections[socketId] # NoConnection

\* server.js 90-94: a client connects
Connect(socketId) ==
    /\ ~Connected(socketId)
    /\ activeConnections' =
           [activeConnections EXCEPT ![socketId] =
               [type |-> "unknown", busId |-> NULL, subscribedBusId |-> UNDEFINED]]
    /\ lastCall' = Call("connection", socketId, <<>>)
    /\ ret' = UNDEFINED
    /\ UNCHANGED <<userContexts, sweptContexts, heap, now, appended, log,
                   activeBuses, busRoutes, busStops, turns, served, broadcast, dbVars, runnerVars>>

\* server.js 173-182: the driver_location_stop handler
DriverLocationStop(socketId, data) ==
    /\ Connected(socketId)
    /\ IF data.busId # "" /\ MapHas(activeBuses, data.busId)
       THEN /\ activeBuses' = MapDelete(activeBuses, data.busId)
            /\ broadcast' = Append(broadcast,
                                   [event |-> "bus_inactive", busId |-> data.busId])
       ELSE UNCHANGED <<activeBuses, broadcast>>
    /\ lastCall' = Call("driver_location_stop", socketId, data)
    /\ ret' = UNDEFINED
    /\ UNCHANGED <<userContexts, sweptContexts, heap, now, appended, log,
                   busRoutes, busStops, turns, served, activeConnections, dbVars, runnerVars>>

\* server.js 184-208: the subscribe_to_bus handler (what it sends to the
\* subscriber alone is left out)
SubscribeToBus(socketId, data) ==
    /\ Connected(socketId)
    /\ activeConnections' =
           [activeConnections EXCEPT ![socketId].type = "user",
                                     ![socketId].subscribedBusId = data.busId]
    /\ lastCall' = Call("subscribe_to_bus", socketId, data)
    /\ ret' = UNDEFINED
    /\ UNCHANGED <<userContexts, sweptContexts, heap, now, appended, log,
                   activeBuses, busRoutes, busStops, turns, served, broadcast, dbVars, runnerVars>>

\* server.js 391-406: the disconnect handler
Disconnect(socketId) ==
    LET connection == activeConnections[socketId]
    IN  /\ Connected(socketId)
        /\ IF connection.type = "driver" /\ connection.busId # NULL
           THEN /\ activeBuses' = MapDelete(activeBuses, connection.busId)
                /\ broadcast' = Append(broadcast,
                                       [event |-> "bus_inactive",
                                        busId |-> connection.busId])
           ELSE UNCHANGED <<activeBuses, broadcast>>
        /\ activeConnections' = [activeConnections EXCEPT ![socketId] = NoConnection]
        /\ lastCall' = Call("disconnect", socketId, <<>>)
        /\ ret' = UNDEFINED
        /\ UNCHANGED <<userContexts, sweptContexts, heap, now, appended, log,
                       busRoutes, busStops, turns, served, dbVars, runnerVars>>

\* The bus the driver behind a socket drives.
DriverBus == [s1 |-> "B1", s2 |-> "B2"]

\* What the driver behind a socket reports.
DriverReport(socketId) ==
    [busId |-> DriverBus[socketId], latitude |-> 2, longitude |-> 1, speed |-> 12]

NextSockets ==
    \/ \E socketId \in SocketIds : Connect(socketId)
    \/ \E socketId \in SocketIds :
           Connected(socketId) /\ DriverLocationUpdate(DriverReport(socketId))
    \/ \E socketId \in SocketIds :
           /\ Len(broadcast) < MaxBroadcasts
           /\ DriverLocationStop(socketId, [busId |-> DriverBus[socketId]])
    \/ \E socketId \in SocketIds, busId \in {"B1", "B2"} :
           SubscribeToBus(socketId, [busId |-> busId])
    \/ \E socketId \in SocketIds : Disconnect(socketId)

SpecSockets == InitStore /\ [][NextSockets]_vars

----------------------------------------------------------------------------
(* SpecProximity: location updates stored in the database, each followed by
   the proximity check of its bus *)

\* The bus_stops table, which these operations only read: the stops of bus B1
\* in stop_order. Coordinates count in steps of 100 metres.
bus_stops ==
    <<[id |-> 1, bus_id |-> "B1", name |-> "A", latitude |-> 2, longitude |-> 1],
      [id |-> 2, bus_id |-> "B1", name |-> "B", latitude |-> 2, longitude |-> 2],
      [id |-> 3, bus_id |-> "B1", name |-> "C", latitude |-> 5, longitude |-> 5]>>

\* part_000 280-287
getBusStops(busId) == SelectSeq(bus_stops, LAMBDA row : row.bus_id = busId)

\* part_000 24-37, in metres and squared: on the grid of the model 100 metres
\* are one step of latitude or longitude
calculateDistanceSquared(lat1, lon1, lat2, lon2) ==
    100 * 100 * ((lat2 - lat1) * (lat2 - lat1) + (lon2 - lon1) * (lon2 - lon1))

\* line 298: distance <= 100
NearStop(call, stop) ==
    calculateDistanceSquared(call.busLat, call.busLon, stop.latitude, stop.longitude)
        <= 100 * 100

proximityWindow == 5 * 60 * 1000

\* lines 300-305: the events of the bus at the stop of the last 5 minutes
RecentEvents(events, busId, stopId, t) ==
    SelectSeq(events, LAMBDA row : /\ row.bus_id = busId
                                   /\ row.stop_id = stopId
                                   /\ row.timestamp > t - proximityWindow)

\* The for loop from row k on, up to its next await: the stops out of range
\* are passed; at a stop in range the SELECT is sent, after the last stop the
\* call returns.
LoopFrom(call, k) ==
    LET near == {i \in k..Len(call.stops) : NearStop(call, call.stops[i])}
    IN  IF near = {} THEN IdleDbCall
        ELSE [call EXCEPT !.pc = "select", !.stop = Min(near)]

\* INSERT INTO active_buses ... ON CONFLICT (bus_id) DO UPDATE
Upsert(rows, row) ==
    IF \E i \in 1..Len(rows) : rows[i].bus_id = row.bus_id
    THEN [i \in 1..Len(rows) |-> IF rows[i].bus_id = row.bus_id THEN row ELSE rows[i]]
    ELSE Append(rows, row)

\* Time passes between two steps: the clock reads t.
ClockTo(t) ==
    /\ now' = t
    /\ lastCall' = NoCall
    /\ log' = <<>>
    /\ ret' = UNDEFINED
    /\ UNCHANGED <<userContexts, sweptContexts, heap, appended, agentVars>>

\* part_000 145-172: updateBusLocation up to the end of its upsert
UpdateBusLocation(c, busData) ==
    LET row == [bus_id |-> busData.busId, device_id |-> busData.deviceId,
                latitude |-> busData.latitude, longitude |-> busData.longitude,
                last_update |-> now, server_received_at |-> now]
    IN  /\ dbCalls[c].pc = "idle"
        /\ db' = [db EXCEPT !.active_buses = Upsert(@, row)]
        /\ dbCalls' = [dbCalls EXCEPT ![c] =
                          [IdleDbCall EXCEPT !.pc = "stops",
                                             !.busId = busData.busId,
                                             !.deviceId = busData.deviceId,
                                             !.busLat = busData.latitude,
                                             !.busLon = busData.longitude]]
        /\ lastCall' = Call("updateBusLocation", busData.busId, busData)
        /\ ret' = UNDEFINED
        /\ UNCHANGED <<userContexts, sweptContexts, heap, now, appended, log,
                       activeBuses, busRoutes, busStops, turns, served, socketVars, runnerVars>>

\* part_000 290-294: getBusStops answers
StopsFetched(c) ==
    /\ dbCalls[c].pc = "stops"
    /\ dbCalls' = [dbCalls EXCEPT ![c] =
                      LoopFrom([dbCalls[c] EXCEPT
                                   !.stops = getBusStops(dbCalls[c].busId)], 1)]
    /\ lastCall' = Call("getBusStops", dbCalls[c].busId, <<>>)
    /\ ret' = UNDEFINED
    /\ UNCHANGED <<userContexts, sweptContexts, heap, now, appended, log,
                   activeBuses, busRoutes, busStops, turns, served, socketVars, runnerVars, db>>

\* part_000 300-308: the SELECT of the recent events answers
RecentSelected(c) ==
    LET call == dbCalls[c]
        recentEvent == RecentEvents(db.proximity_events, call.busId,
                                    call.stops[call.stop].id, now)
    IN  /\ call.pc = "select"
        /\ dbCalls' = [dbCalls EXCEPT ![c] =
                          IF Len(recentEvent) = 0 THEN [call EXCEPT !.pc = "insert"]
                          ELSE LoopFrom(call, call.stop + 1)]
        /\ lastCall' = Call("selectRecentEvent", call.busId, <<>>)
        /\ ret' = UNDEFINED
        /\ UNCHANGED <<userContexts, sweptContexts, heap, now, appended, log,
                       activeBuses, busRoutes, busStops, turns, served, socketVars, runnerVars, db>>

\* part_000 309-322: the INSERT of the event is done
EventInserted(c) ==
    LET call == dbCalls[c]
        stop == call.stops[call.stop]
        row == [bus_id |-> call.busId, device_id |-> call.deviceId,
                stop_id |-> stop.id, stop_name |-> stop.name,
                timestamp |-> now, event_type |-> "near_stop"]
    IN  /\ call.pc = "insert"
        /\ db' = [db EXCEPT !.proximity_events = Append(@, row)]
        /\ dbCalls' = [dbCalls EXCEPT ![c] = LoopFrom(call, call.stop + 1)]
        /\ lastCall' = Call("insertEvent", call.busId, <<>>)
        /\ ret' = UNDEFINED
        /\ UNCHANGED <<userContexts, sweptContexts, heap, now, appended, log,
                       activeBuses, busRoutes, busStops, turns, served, socketVars, runnerVars>>

\* Bus B1 at stop A (and within 100 metres of stop B), and away from every stop.
BusDataSamples ==
    {[busId |-> "B1", deviceId |-> "d1", latitude |-> 2, longitude |-> 1],
     [busId |-> "B1", deviceId |-> "d1", latitude |-> 9, longitude |-> 9]}

\* The times of a run: the start, a millisecond later, 5 minutes after the
\* start and a millisecond past that.
ProximityClock == {0, 1, proximityWindow, proximityWindow + 1}

NextProximity ==
    \/ \E c \in DbCallIds, busData \in BusDataSamples :
           /\ Len(db.proximity_events) < MaxProximityEvents
           /\ UpdateBusLocation(c, busData)
    \/ \E c \in DbCallIds : StopsFetched(c)
    \/ \E c \in DbCallIds : RecentSelected(c)
    \/ \E c \in DbCallIds : EventInserted(c)
    \/ \E t \in ProximityClock : t > now /\ ClockTo(t)

SpecProximity == InitStore /\ [][NextProximity]_vars

\* The same with the updates one after the other: a call starts when no other
\* call is in flight.
NextProximitySerial ==
    \/ \E c \in DbCallIds, busData \in BusDataSamples :
           /\ Len(db.proximity_events) < MaxProximityEvents
           /\ \A other \in DbCallIds : dbCalls[other].pc = "idle"
           /\ UpdateBusLocation(c, busData)
    \/ \E c \in DbCallIds : StopsFetched(c)
    \/ \E c \in DbCallIds : RecentSelected(c)
    \/ \E c \in DbCallIds : EventInserted(c)
    \/ \E t \in ProximityClock : t > now /\ ClockTo(t)

SpecProximitySerial == InitStore /\ [][NextProximitySerial]_vars

----------------------------------------------------------------------------
(* The background runner (part_001 840-1162) *)

\* The runner's state as its functions see it; posted collects what one
\* handler sends.
Runner ==
    [backgroundState |-> backgroundState, BACKGROUND_CONFIG |-> BACKGROUND_CONFIG,
     intervals |-> intervals, timerIds |-> timerIds, posted |-> <<>>]

\* lines 1046-1057
sendMessage(r, type, data) ==
    [r EXCEPT !.posted = Append(@, [type |-> type, data |-> data])]

\* The handle setInterval returns next: a value that is not falsy
NextHandle(r) == [timer |-> r.timerIds + 1]

setInterval(r) ==
    [r EXCEPT !.timerIds = @ + 1, !.intervals = @ \cup {NextHandle(r)}]

clearInterval(r, intervalId) == [r EXCEPT !.intervals = @ \ {intervalId}]

\* (mutant) the running interval is not cleared before the next one is set
startBackgroundTrackingKeepsTimer(r, config) ==
    IF config = UNDEFINED
    THEN sendMessage(r, "BACKGROUND_ERROR", [error |-> "TypeError"])
    ELSE LET assigned == [r EXCEPT !.backgroundState.busId = config.busId,
                                   !.backgroundState.deviceId = config.deviceId,
                                   !.backgroundState.isActive = TRUE,
                                   !.backgroundState.retryCount = 0]
             started == [setInterval(assigned) EXCEPT
                            !.backgroundState.intervalId = NextHandle(assigned)]
         IN  sendMessage(started, "BACKGROUND_TRACKING_STARTED",
                         [busId |-> started.backgroundState.busId,
                          interval |-> started.BACKGROUND_CONFIG.locationUpdateInterval])

\* lines 900-931; config undefined makes config.busId throw before anything
\* is assigned
startBackgroundTracking(r, config) ==
    IF config = UNDEFINED
    THEN sendMessage(r, "BACKGROUND_ERROR", [error |-> "TypeError"])
    ELSE LET assigned == [r EXCEPT !.backgroundState.busId = config.busId,
                                   !.backgroundState.deviceId = config.deviceId,
                                   !.backgroundState.isActive = TRUE,
                                   !.backgroundState.retryCount = 0]
             cleared == IF assigned.backgroundState.intervalId # NULL
                        THEN clearInterval(assigned, assigned.backgroundState.intervalId)
                        ELSE assigned
             started == [setInterval(cleared) EXCEPT
                            !.backgroundState.intervalId = NextHandle(cleared)]
         IN  sendMessage(started, "BACKGROUND_TRACKING_STARTED",
                         [busId |-> started.backgroundState.busId,
                          interval |-> started.BACKGROUND_CONFIG.locationUpdateInterval])

\* lines 933-956
stopBackgroundTracking(r) ==
    LET cleared == IF r.backgroundState.intervalId # NULL
                   THEN [clearInterval(r, r.backgroundState.intervalId) EXCEPT
                            !.backgroundState.intervalId = NULL]
                   ELSE r
        stopped == [cleared EXCEPT !.backgroundState.isActive = FALSE,
                                   !.backgroundState.busId = NULL,
                                   !.backgroundState.deviceId = NULL,
                                   !.backgroundState.retryCount = 0]
    IN  sendMessage(stopped, "BACKGROUND_TRACKING_STOPPED",
                    [lastUpdate |-> stopped.backgroundState.lastUpdate])

\* lines 1063-1092; a field of config that is 0 stands for one that is not
\* given, and config undefined makes the first test throw
updateBackgroundConfig(r, config) ==
    IF config = UNDEFINED THEN r
    ELSE LET timed ==
                 IF config.locationUpdateInterval # 0
                 THEN LET set == [r EXCEPT !.BACKGROUND_CONFIG.locationUpdateInterval =
                                               config.locationUpdateInterval]
                      IN  IF set.backgroundState.isActive
                             /\ set.backgroundState.intervalId # NULL
                          THEN LET cleared ==
                                       clearInterval(set, set.backgroundState.intervalId)
                               IN  [setInterval(cleared) EXCEPT
                                       !.backgroundState.intervalId = NextHandle(cleared)]
                          ELSE set
                 ELSE r
             retried == IF config.maxRetries # 0
                        THEN [timed EXCEPT !.BACKGROUND_CONFIG.maxRetries =
                                               config.maxRetries]
                        ELSE timed
             configured == IF config.timeoutDuration # 0
                           THEN [retried EXCEPT !.BACKGROUND_CONFIG.timeoutDuration =
                                                    config.timeoutDuration]
                           ELSE retried
         IN  sendMessage(configured, "BACKGROUND_CONFIG_UPDATED",
                         configured.BACKGROUND_CONFIG)

\* lines 971-992: the position has arrived
captureSucceeded(r, position, t) ==
    LET locationData == [deviceId |-> r.backgroundState.deviceId,
                         busId |-> r.backgroundState.busId,
                         latitude |-> position.latitude,
                         longitude |-> position.longitude,
                         timestamp |-> [time |-> t],
                         backgroundUpdate |-> TRUE,
                         source |-> "background-runner"]
        sent == sendMessage(r, "BACKGROUND_LOCATION_UPDATE", locationData)
    IN  [sent EXCEPT !.backgroundState.lastUpdate = locationData.timestamp,
                     !.backgroundState.retryCount = 0]

\* lines 997-1015: getCurrentPosition has rejected
captureFailed(r) ==
    LET counted == [r EXCEPT !.backgroundState.retryCount = @ + 1]
    IN  IF counted.backgroundState.retryCount >= counted.BACKGROUND_CONFIG.maxRetries
        THEN LET stopped == stopBackgroundTracking(counted)
             IN  sendMessage(stopped, "BACKGROUND_ERROR",
                             [error |-> "Max location capture retries reached",
                              retryCount |-> stopped.backgroundState.retryCount])
        ELSE sendMessage(counted, "BACKGROUND_WARNING",
                         [error |-> "position unavailable",
                          retryCount |-> counted.backgroundState.retryCount])

\* lines 1117-1137
performCleanup(r, t) ==
    IF /\ r.backgroundState.lastUpdate # NULL
       /\ t - r.backgroundState.lastUpdate.time < 5 * 60 * 1000
       /\ r.backgroundState.retryCount > 0
    THEN [r EXCEPT !.backgroundState.retryCount = 0]
    ELSE r

\* What a handler of the runner leaves behind; everything outside the runner
\* stays as it is.
CommitRunner(r, op, data) ==
    /\ backgroundState' = r.backgroundState
    /\ BACKGROUND_CONFIG' = r.BACKGROUND_CONFIG
    /\ intervals' = r.intervals
    /\ timerIds' = r.timerIds
    /\ posted' = r.posted
    /\ lastCall' = Call(op, "runner", data)
    /\ ret' = UNDEFINED
    /\ UNCHANGED <<userContexts, sweptContexts, heap, now, appended, log,
                   activeBuses, busRoutes, busStops, turns, served, socketVars, dbVars>>

\* handleMessage, lines 870-897
StartBackgroundTracking(config) ==
    /\ CommitRunner(startBackgroundTracking(Runner, config),
                    "START_BACKGROUND_TRACKING", config)
    /\ failedInARow' = IF config = UNDEFINED THEN failedInARow ELSE 0
    /\ UNCHANGED captures

StopBackgroundTracking ==
    /\ CommitRunner(stopBackgroundTracking(Runner), "STOP_BACKGROUND_TRACKING", <<>>)
    /\ UNCHANGED <<captures, failedInARow>>

UpdateBackgroundConfig(config) ==
    /\ CommitRunner(updateBackgroundConfig(Runner, config), "UPDATE_CONFIG", config)
    /\ UNCHANGED <<captures, failedInARow>>

\* lines 958-969: an interval timer fires and captureLocationInBackground runs
\* up to its await
IntervalFires(intervalId, c) ==
    /\ intervalId \in intervals
    /\ captures[c].pc = "idle"
    /\ captures' = IF backgroundState.isActive
                   THEN [captures EXCEPT ![c] = [pc |-> "awaiting",
                                                 busId |-> backgroundState.busId,
                                                 deviceId |-> backgroundState.deviceId]]
                   ELSE captures
    /\ CommitRunner(Runner, "captureLocationInBackground", intervalId)
    /\ UNCHANGED failedInARow

\* lines 971-996: getCurrentPosition resolves
PositionResolved(c, position) ==
    /\ captures[c].pc = "awaiting"
    /\ captures' = [captures EXCEPT ![c] = IdleCapture]
    /\ CommitRunner(captureSucceeded(Runner, position, now), "positionResolved", c)
    /\ failedInARow' = 0

\* lines 997-1015: getCurrentPosition rejects
PositionRejected(c) ==
    /\ captures[c].pc = "awaiting"
    /\ captures' = [captures EXCEPT ![c] = IdleCapture]
    /\ CommitRunner(captureFailed(Runner), "positionRejected", c)
    /\ failedInARow' = failedInARow + 1

\* lines 1108-1113: the cleanup timer fires
PerformCleanup ==
    /\ CommitRunner(performCleanup(Runner, now), "performCleanup", <<>>)
    /\ UNCHANGED <<captures, failedInARow>>

----------------------------------------------------------------------------
(* SpecRunner: the main app starts, stops and configures the background
   tracking while timers fire and positions arrive or fail *)

TrackingConfigs ==
    {[busId |-> Str("B1"), deviceId |-> Str("d1")],
     [busId |-> Str("B2"), deviceId |-> Str("d2")],
     UNDEFINED}

\* A new interval, a new retry limit, and no configuration at all.
ConfigUpdates ==
    {[locationUpdateInterval |-> 1000, maxRetries |-> 0, timeoutDuration |-> 0],
     [locationUpdateInterval |-> 0, maxRetries |-> 2, timeoutDuration |-> 20000],
     UNDEFINED}

Positions == {[latitude |-> 2, longitude |-> 1]}

\* The times of a run: the start and 5 minutes later.
RunnerClock == {0, 5 * 60 * 1000}

NextRunner ==
    \/ \E config \in TrackingConfigs :
           timerIds < MaxTimers /\ StartBackgroundTracking(config)
    \/ StopBackgroundTracking
    \/ \E config \in ConfigUpdates :
           timerIds < MaxTimers /\ UpdateBackgroundConfig(config)
    \/ \E intervalId \in intervals, c \in CaptureIds :
           failedInARow < MaxFailures /\ IntervalFires(intervalId, c)
    \/ \E c \in CaptureIds, position \in Positions : PositionResolved(c, position)
    \/ \E c \in CaptureIds : PositionRejected(c)
    \/ PerformCleanup
    \/ \E t \in RunnerClock : t > now /\ ClockTo(t)

SpecRunner == InitStore /\ [][NextRunner]_vars

----------------------------------------------------------------------------
(* SpecRoutes: find_routes over snapshots of up to MaxRoutes routes *)

Stop(name, latitude) == [name |-> name, latitude |-> latitude, longitude |-> 1]

RouteOfBus(busId, names) ==
    [busId |-> busId, deviceId |-> UNDEFINED,
     parsedStops |-> [i \in 1..Len(names) |-> Stop(names[i], i)],
     stopCount |-> Len(names), lastUpdated |-> 0, serverReceivedAt |-> 0]

\* A route, the same stops in the opposite direction, a route that passes one
\* stop twice, and a route whose stop names hold one another.
RouteSamples ==
    {RouteOfBus("B1", <<"A", "B", "C", "D">>),
     RouteOfBus("B2", <<"D", "C", "B", "A">>),
     RouteOfBus("B3", <<"A", "B", "A", "C">>),
     RouteOfBus("B4", <<"Bay", "Abbey", "Cab">>)}

\* The snapshots: routes of different buses, in any order.
RouteLists ==
    {routes \in SeqsUpTo(RouteSamples, MaxRoutes) :
        \A i, j \in 1..Len(routes) : i # j => routes[i].busId # routes[j].busId}

StopNames == {"A", "a", "B", "C", "D", "Bay", "Z"}

InitRoutes ==
    /\ \E fromStop \in StopNames, toStop \in StopNames, routes \in RouteLists :
          lastCall = Call("input", "none",
                          [args |-> JObj([fromStop |-> JStr(fromStop),
                                          toStop |-> JStr(toStop)]),
                           context |-> [NewContext("u1", 0) EXCEPT !.busRoutes = routes]])
    /\ userContexts = [u \in Users |-> NoRef]
    /\ heap = [r \in Refs |-> FreeObj]
    /\ now = 0
    /\ appended = 0
    /\ log = <<>>
    /\ ret = UNDEFINED
    /\ activeBuses = <<>>
    /\ busRoutes = <<>>
    /\ busStops = <<>>
    /\ turns = [id \in TurnIds |-> IdleTurn]
    /\ served = 0
    /\ sweptContexts = [u \in Users |-> NoRef]
    /\ InitExt

\* agentTools.find_routes(args, context)
FindRoutes ==
    /\ lastCall.op = "input"
    /\ lastCall' = [lastCall EXCEPT !.op = "find_routes"]
    /\ ret' = find_routes(lastCall.arg.args, lastCall.arg.context)
    /\ UNCHANGED <<userContexts, sweptContexts, heap, now, appended, log, agentVars>>

NextRoutes == FindRoutes

SpecRoutes == InitRoutes /\ [][NextRoutes]_vars

----------------------------------------------------------------------------
(* SpecStops: find_nearest_stops over snapshots with and without a location *)

\* The stops of three buses: four stops on a line, two stops of which one is
\* named like a stop of the first bus, and no stops.
StopListSamples ==
    {[busId |-> "B1", stops |-> SampleStops],
     [busId |-> "B2", stops |-> <<Stop("a", 3), Stop("E", 5)>>],
     [busId |-> "B3", stops |-> <<>>]}

StopLists ==
    {entries \in SeqsUpTo(StopListSamples, MaxStopLists) :
        \A i, j \in 1..Len(entries) : i # j => entries[i].busId # entries[j].busId}

\* No location, two locations, and a location on the equator.
StopLocations == {NULL, Loc1, Loc2, [lat |-> 0, lng |-> 2]}

StopArguments ==
    {JObj(NoFields), JObj([count |-> JNum(1)]), JObj([count |-> JNum(2)])}

InitStops ==
    /\ \E args \in StopArguments, userLocation \in StopLocations, entries \in StopLists :
          lastCall = Call("input", "none",
                          [args |-> args,
                           context |-> [NewContext("u1", 0) EXCEPT
                                           !.userLocation = userLocation,
                                           !.busStops = entries]])
    /\ userContexts = [u \in Users |-> NoRef]
    /\ heap = [r \in Refs |-> FreeObj]
    /\ now = 0
    /\ appended = 0
    /\ log = <<>>
    /\ ret = UNDEFINED
    /\ activeBuses = <<>>
    /\ busRoutes = <<>>
    /\ busStops = <<>>
    /\ turns = [id \in TurnIds |-> IdleTurn]
    /\ served = 0
    /\ sweptContexts = [u \in Users |-> NoRef]
    /\ InitExt

\* agentTools.find_nearest_stops(args, context)
FindNearestStops ==
    /\ lastCall.op = "input"
    /\ lastCall' = [lastCall EXCEPT !.op = "find_nearest_stops"]
    /\ ret' = find_nearest_stops(lastCall.arg.args, lastCall.arg.context)
    /\ UNCHANGED <<userContexts, sweptContexts, heap, now, appended, log, agentVars>>

NextStops == FindNearestStops

SpecStops == InitStops /\ [][NextStops]_vars

----------------------------------------------------------------------------
(* SpecNearest: find_nearest_stops over locations and stops with a coordinate
   of 0 *)

\* The stops of four buses: four stops on a line, two stops of which one is
\* named like a stop of the first bus, no stops, and a stop on the equator
\* followed by a stop without a name and a stop named like one of the first bus.
NearestListSamples ==
    {[busId |-> "B1", stops |-> SampleStops],
     [busId |-> "B2", stops |-> <<Stop("a", 3), Stop("E", 5)>>],
     [busId |-> "B3", stops |-> <<>>],
     [busId |-> "B4", stops |-> <<Stop("Z", 0), Stop("", 2), Stop("D", 2)>>]}

NearestLists ==
    {entries \in SeqsUpTo(NearestListSamples, MaxNearestLists) :
        \A i, j \in 1..Len(entries) : i # j => entries[i].busId # entries[j].busId}

\* No location, two locations, a location on the equator and one on the prime
\* meridian.
NearestLocations ==
    {NULL, Loc1, Loc2, [lat |-> 0, lng |-> 2], [lat |-> 2, lng |-> 0]}

NearestArguments ==
    {JObj(NoFields), JObj([count |-> JNum(1)]), JObj([count |-> JNum(2)]),
     JObj([count |-> JNum(5)])}

InitNearest ==
    /\ \E args \in NearestArguments, userLocation \in NearestLocations,
          entries \in NearestLists :
          lastCall = Call("input", "none",
                          [args |-> args,
                           context |-> [NewContext("u1", 0) EXCEPT
                                           !.userLocation = userLocation,
                                           !.busStops = entries]])
    /\ userContexts = [u \in Users |-> NoRef]
    /\ heap = [r \in Refs |-> FreeObj]
    /\ now = 0
    /\ appended = 0
    /\ log = <<>>
    /\ ret = UNDEFINED
    /\ activeBuses = <<>>
    /\ busRoutes = <<>>
    /\ busStops = <<>>
    /\ turns = [id \in TurnIds |-> IdleTurn]
    /\ served = 0
    /\ sweptContexts = [u \in Users |-> NoRef]
    /\ InitExt

NextNearest == FindNearestStops

SpecNearest == InitNearest /\ [][NextNearest]_vars

----------------------------------------------------------------------------
(* SpecArrival: get_arrival_time over snapshots of buses and routes *)

\* No bus, bus B1, and buses B1 and B2.
ArrivalBuses ==
    {<<>>, <<SampleBus>>,
     <<SampleBus, [SampleBus EXCEPT !.busId = "B2", !.latitude = 3]>>}

ArrivalRoutes ==
    {routes \in SeqsUpTo(RouteSamples, MaxArrivalRoutes) :
        \A i, j \in 1..Len(routes) : i # j => routes[i].busId # routes[j].busId}

\* The bus as the driver wrote it, in lower case, another bus and a bus nobody
\* reported; a stop every route has, a stop in lower case and no stop.
ArrivalArguments ==
    {JObj([busId |-> JStr(busId), stopName |-> JStr(stopName)]) :
        busId \in {"B1", "b1", "B2", "B9"}, stopName \in {"A", "c", "Z"}}

InitArrival ==
    /\ \E args \in ArrivalArguments, buses \in ArrivalBuses, routes \in ArrivalRoutes :
          lastCall = Call("input", "none",
                          [args |-> args,
                           context |-> [NewContext("u1", 0) EXCEPT
                                           !.activeBuses = buses,
                                           !.busRoutes = routes]])
    /\ userContexts = [u \in Users |-> NoRef]
    /\ heap = [r \in Refs |-> FreeObj]
    /\ now = 0
    /\ appended = 0
    /\ log = <<>>
    /\ ret = UNDEFINED
    /\ activeBuses = <<>>
    /\ busRoutes = <<>>
    /\ busStops = <<>>
    /\ turns = [id \in TurnIds |-> IdleTurn]
    /\ served = 0
    /\ sweptContexts = [u \in Users |-> NoRef]
    /\ InitExt

\* agentTools.get_arrival_time(args, context)
GetArrivalTime ==
    /\ lastCall.op = "input"
    /\ lastCall' = [lastCall EXCEPT !.op = "get_arrival_time"]
    /\ ret' = get_arrival_time(lastCall.arg.args, lastCall.arg.context, now)
    /\ UNCHANGED <<userContexts, sweptContexts, heap, now, appended, log, agentVars>>

NextArrival == GetArrivalTime

SpecArrival == InitArrival /\ [][NextArrival]_vars

----------------------------------------------------------------------------
(* SpecSweep: cleanupExpiredContexts over stores of sessions of several ages *)

\* The sessions a user can have when the sweep runs: none, or one last updated
\* at one of the first milliseconds, with or without a message.
SweepSessions(userId) ==
    {FreeObj}
    \cup {[NewContext(userId, 0) EXCEPT !.lastUpdated = t] : t \in 0..MaxSweepTicks}
    \cup {[NewContext(userId, 0) EXCEPT
              !.lastUpdated = t,
              !.messageHistory = <<Message("user", Text(1), t)>>] :
          t \in 0..MaxSweepTicks}

SweepRef(userId) == IF userId = "u1" THEN 1 ELSE 2

InitSweep ==
    /\ \E s1 \in SweepSessions("u1"), s2 \in SweepSessions("u2") :
          /\ heap = [r \in Refs |-> IF r = 1 THEN s1 ELSE IF r = 2 THEN s2 ELSE FreeObj]
          /\ userContexts = [u \in Users |->
                                IF heap[SweepRef(u)] = FreeObj THEN NoRef
                                ELSE SweepRef(u)]
    /\ now \in {maxContextAge + k : k \in 0..(MaxSweepTicks + 1)}
    /\ appended = 0
    /\ lastCall = NoCall
    /\ log = <<>>
    /\ ret = UNDEFINED
    /\ activeBuses = <<>>
    /\ busRoutes = <<>>
    /\ busStops = <<>>
    /\ turns = [id \in TurnIds |-> IdleTurn]
    /\ served = 0
    /\ sweptContexts = [u \in Users |-> NoRef]
    /\ InitExt

NextSweep == lastCall = NoCall /\ CleanupExpiredContexts

SpecSweep == InitSweep /\ [][NextSweep]_vars

----------------------------------------------------------------------------
(* SpecTimer: the store of server.js while the sweep timer fires *)

sweepInterval == 10 * 60 * 1000

\* context-manager.js 238-244: the timer fires, and its callback sweeps the
\* ContextManager that context-manager.js created for itself. server.js
\* creates its own (line 47) and gets the class alone from the module.
PeriodicSweep ==
    LET st == cleanupExpiredContexts([m |-> sweptContexts, h |-> heap, log |-> <<>>],
                                     now + sweepInterval)
    IN  /\ now + sweepInterval <= MaxSweeps * sweepInterval
        /\ now' = now + sweepInterval
        /\ sweptContexts' = st.m
        /\ log' = st.log
        /\ lastCall' = Call("setInterval", "none", <<>>)
        /\ ret' = UNDEFINED
        /\ UNCHANGED <<userContexts, heap, appended, agentVars>>

TimerAppend ==
    \E userId \in Users :
        /\ appended < MaxTimerAppends
        /\ AddMessageToHistory(userId, "user", Text(appended + 1))

NextTimer ==
    \/ \E userId \in Users : GetUserContext(userId)
    \/ TimerAppend
    \/ PeriodicSweep

SpecTimer == InitStore /\ [][NextTimer]_vars

----------------------------------------------------------------------------
(* SpecReset: two users' sessions, written to and reset in any order *)

ImperialPreferences ==
    [preferredUnits |-> "imperial", maxNearbyStops |-> 3, notificationRadius |-> 100]

ResetPatches ==
    {[userLocation |-> Value(Loc1), preferences |-> Value(ImperialPreferences)]}

ResetAppend ==
    \E userId \in Users :
        /\ appended < MaxResetAppends
        /\ AddMessageToHistory(userId, "user", Text(appended + 1))

ResetExchange ==
    \E userId \in Users :
        /\ appended + 1 < MaxResetAppends
        /\ AddToConversationHistory(userId, Text(appended + 1), Text(appended + 2))

NextReset ==
    \/ ResetAppend
    \/ ResetExchange
    \/ \E userId \in Users, updates \in ResetPatches : UpdateContext(userId, updates)
    \/ \E userId \in Users : CreateNewContext(userId)
    \/ Tick(1)

SpecReset == InitStore /\ [][NextReset]_vars

----------------------------------------------------------------------------
(* Properties *)

Range(seq) == {seq[i] : i \in 1..Len(seq)}

\* C1: after any sequence of addMessageToHistory and addToConversationHistory
\* calls, every session object holds at most maxHistoryLength (20) messages.
C1_HistoryCapped ==
    \A r \in Refs :
        heap[r] # FreeObj => Len(heap[r].messageHistory) <= maxHistoryLength

\* More messages have been appended than the cap, and the history is full.
C1_Witness ==
    /\ appended > maxHistoryLength
    /\ Len(Session("u1").messageHistory) = maxHistoryLength

C2_Operations ==
    {"getUserContext", "updateContext", "addMessageToHistory",
     "getFormattedHistory", "getConversationSummary"}

\* What a call leaves when it starts from no session at all.
C2_FromScratch(call, t) ==
    LET fresh == NewContext(call.userId, t)
    IN  CASE call.op = "updateContext" ->
                LET set == {k \in DOMAIN call.arg : call.arg[k].kind = "value"}
                IN  [k \in DOMAIN fresh \cup set |->
                        IF k = "lastUpdated" THEN t
                        ELSE IF k \in set THEN call.arg[k].val
                        ELSE fresh[k]]
          [] call.op = "addMessageToHistory" ->
                [fresh EXCEPT !.messageHistory =
                    <<[role |-> call.arg[1], content |-> call.arg[2], timestamp |-> t]>>]
          [] OTHER -> fresh

\* C2: when a user's session has lastUpdated more than 30 minutes before now,
\* the next store operation for that user leaves exactly the session the same
\* operation builds from nothing (empty history, empty exchanges, no location,
\* default preferences, apart from what the operation itself adds), and what
\* it returns shows no message, no location and no age.
C2_ExpiredSessionIsFresh ==
    [][\A userId \in Users :
          ( /\ HasSession(userId)
            /\ now - Session(userId).lastUpdated > maxContextAge
            /\ lastCall'.op \in C2_Operations
            /\ lastCall'.userId = userId )
          => /\ Session(userId)' = C2_FromScratch(lastCall', now)
             /\ lastCall'.op = "getUserContext" => ret' = NewContext(userId, now)
             /\ lastCall'.op = "getFormattedHistory" =>
                    \A i \in 1..Len(ret') : ret'[i].role = "system"
             /\ lastCall'.op = "getConversationSummary" =>
                    /\ ret'.messageCount = 0
                    /\ ~ret'.hasLocation
                    /\ ret'.sessionDurationMinutes = 0
      ]_storeVars

\* A message was appended for a user whose earlier session, which held a
\* message, had expired: the history holds the new message alone.
C2_Witness ==
    /\ lastCall.op = "addMessageToHistory"
    /\ "Context expired" \in Range(log)
    /\ appended >= 2
    /\ Len(Session(lastCall.userId).messageHistory) = 1

\* C3: the messages getFormattedHistory returns have an estimated token sum,
\* the system message included, of at most maxTokensPerContext (8000), unless
\* no message but the system message is returned.
C3_WithinBudget ==
    lastCall.op = "getFormattedHistory" =>
        \/ estimateTokens(ret) <= maxTokensPerContext
        \/ \A i \in 1..Len(ret) : ret[i].role = "system"

\* The session updateContext starts from: the live one, or a new one.
C4_Base(userId) ==
    IF HasSession(userId) /\ now - Session(userId).lastUpdated <= maxContextAge
    THEN Session(userId)
    ELSE NewContext(userId, now)

\* C4: updateContext overwrites the field of every key of the patch whose
\* value is neither null nor undefined, and leaves every other field as it
\* was: the fields of keys whose value is null or undefined, and the fields the
\* patch does not name. lastUpdated is the exception the claim makes: it is
\* refreshed whatever the patch holds.
C4_PatchFrame ==
    [][\A userId \in Users :
          (lastCall'.op = "updateContext" /\ lastCall'.userId = userId) =>
              LET patch == lastCall'.arg
                  set == {k \in DOMAIN patch : patch[k].kind = "value"}
                  base == C4_Base(userId)
                  after == Session(userId)'
              IN  /\ DOMAIN after = DOMAIN base \cup set
                  /\ \A k \in DOMAIN after \ {"lastUpdated"} :
                        after[k] = IF k \in set THEN patch[k].val ELSE base[k]
      ]_storeVars

\* The patch {userLocation: null} was applied to a session that has a location,
\* and the location is still there.
C4_Witness ==
    /\ lastCall = Call("updateContext", "u1", [userLocation |-> NullEntry])
    /\ Session("u1").userLocation = Loc1

Last(seq) == seq[Len(seq)]

Ended(turn) == turn.pc \in {"returned", "done"}

\* C5: a query that holds a denylisted term in any letter case makes
\* processQuery return the refusal string, with no model call and no tool
\* execution, whatever the session it is given and however often it is asked.
C5_RestrictedRefused ==
    \A id \in TurnIds :
        LET turn == Turn(id)
        IN  (turn.pc # "idle" /\ turn.message \in RestrictedQueries) =>
                /\ Ended(turn)
                /\ turn.result = Refusal
                /\ ~turn.threw
                /\ turn.firstCalls = 0
                /\ turn.secondCalls = 0
                /\ turn.tools = <<>>

\* The second call of a run, with the term in capitals and a session that has a
\* location and buses, was refused.
C5_Witness ==
    /\ served = 2
    /\ Turn(1).pc = "returned"
    /\ Turn(1).message = Str("Any OTHER APPLICATIONS?")
    /\ Turn(1).result = Refusal
    /\ TurnContext(1).userLocation = Loc1

\* Completions that are not tool calls: not JSON, JSON that is no object, JSON
\* null, an object without arguments, an object without tool_name.
C6_NonToolTexts ==
    {Str(PlainText), Str(NumberText), Str(NullText), Str(NoArgumentsText),
     Str(NoToolNameText)}

\* C6: when the first completion's text is not JSON, or is JSON without
\* tool_name or without arguments, processQuery returns that text: no tool is
\* executed and no second completion is called.
C6_RawTextIsAnswer ==
    \A id \in TurnIds :
        LET turn == Turn(id)
        IN  ( /\ turn.first # <<>>
              /\ Last(turn.first).kind = "content"
              /\ Last(turn.first).content \in C6_NonToolTexts )
            => /\ Ended(turn)
               /\ turn.result = Last(turn.first).content
               /\ ~turn.threw
               /\ turn.tools = <<>>
               /\ turn.secondCalls = 0

\* A completion that names a tool but has no arguments was returned as it is.
C6_Witness ==
    /\ Turn(1).pc = "returned"
    /\ Turn(1).first # <<>>
    /\ Last(Turn(1).first) = Content(Str(NoArgumentsText))
    /\ Turn(1).result = Str(NoArgumentsText)

C7_Failures(turn) ==
    Cardinality({i \in DOMAIN turn.first : turn.first[i].kind \in FailureKinds})

C7_State(turn) ==
    LET failures == C7_Failures(turn)
    IN  /\ turn.firstCalls <= 3
        /\ turn.firstCalls = Len(turn.first) + (IF turn.pc = "call1" THEN 1 ELSE 0)
        /\ turn.delays = [k \in 1..Len(turn.delays) |-> k * retryDelay]
        /\ Len(turn.delays) = IF failures < 3 THEN failures ELSE 2
        /\ \A i \in DOMAIN turn.first :
              turn.first[i].kind = "content" =>
                  i = Len(turn.first) /\ turn.pc \notin {"call1", "delay"}
        /\ turn.pc = "delay" => failures = Len(turn.first) /\ failures < 3
        /\ failures = 3 =>
              /\ Ended(turn)
              /\ turn.result = Apology
              /\ ~turn.threw
              /\ turn.firstCalls = 3
              /\ turn.secondCalls = 0

\* C7: a turn makes at most 3 first-completion calls; the k-th failure, k < 3,
\* is followed by a delay of k * retryDelay and then by one more call; a call
\* that succeeds is the last one; the third failure returns the apology string,
\* with no further call and no exception.
C7_BoundedRetries ==
    [][\A id \in TurnIds :
          /\ C7_State(Turn(id)')
          /\ (Turn(id).pc = "delay" /\ Turn(id)' # Turn(id)) =>
                /\ Turn(id)'.pc = "call1"
                /\ Turn(id)'.firstCalls = Turn(id).firstCalls + 1
      ]_vars

\* Three calls failed, 1000 and 2000 ms were waited, and the apology came back.
C7_Witness ==
    /\ Turn(1).pc = "returned"
    /\ C7_Failures(Turn(1)) = 3
    /\ Turn(1).delays = <<1000, 2000>>
    /\ Turn(1).result = Apology

\* C8: once a tool has run, the second completion is called exactly once; when
\* it fails the turn returns the fallback string, and neither the second
\* completion nor the first completion nor the tool runs again.
C8_SecondCompletionOnce ==
    \A id \in TurnIds :
        LET turn == Turn(id)
        IN  /\ turn.secondCalls = Len(turn.tools)
            /\ turn.tools # <<>> =>
                  /\ Len(turn.tools) = 1
                  /\ turn.pc \in {"call2", "returned", "done"}
                  /\ turn.firstCalls = Len(turn.first)
                  /\ Last(turn.first).kind = "content"
                  /\ Len(turn.second) = IF turn.pc = "call2" THEN 0 ELSE 1
                  /\ (turn.second # <<>> /\ turn.second[1].kind \in FailureKinds) =>
                        turn.result = Fallback /\ ~turn.threw

\* After a failed first call, find_routes ran, the second completion timed out
\* and the fallback string came back.
C8_Witness ==
    /\ Turn(1).pc = "returned"
    /\ Len(Turn(1).first) = 2
    /\ Len(Turn(1).tools) = 1
    /\ Turn(1).tools[1].invoked = "find_routes"
    /\ Turn(1).second = <<Failure("timeout")>>
    /\ Turn(1).result = Fallback

C9_Events == {"ai_chat_response", "ai_chat_error"}

\* C9: however the model calls and the tool end, a turn for a text message
\* resolves to a string, no error leaves processQuery, and the handler emits
\* exactly one of ai_chat_response and ai_chat_error.
C9_TurnResolvesToText ==
    \A id \in TurnIds :
        LET turn == Turn(id)
        IN  (Ended(turn) /\ IsString(turn.message)) =>
                /\ IsString(turn.result)
                /\ ~turn.threw
                /\ (turn.pc = "done" /\ turn.caller = "handler") =>
                      /\ Len(turn.emitted) = 1
                      /\ turn.emitted[1].event \in C9_Events

\* C10: for a tool_name that is none of the four registered tools, the tool
\* result is {error: "Tool '<name>' not found."}, no function is invoked, and
\* the second completion is called.
C10_UnknownToolNotFound ==
    \A id \in TurnIds :
        \A i \in DOMAIN Turn(id).tools :
            LET run == Turn(id).tools[i]
                key == ToText(run.name)
            IN  key \notin OwnTools =>
                    /\ run.result = [error |-> "Tool '" \o key \o "' not found."]
                    /\ run.invoked = "none"
                    /\ Turn(id).secondCalls = 1

\* The arguments the turn's tool was called with, as the assistant message of
\* the turn records them.
C11_Arguments(turn) == turn.messages[3].tool_calls[1].function.arguments.json

\* C11: when a registered tool throws, the tool result is {error: "Error
\* executing <name>: <exception message>"}, that result is the content of the
\* tool message sent to the model, the second completion is called, and the
\* attempt counter and the delays are those of the failed first completions
\* alone.
C11_ToolFaultBecomesResult ==
    \A id \in TurnIds :
        LET turn == Turn(id)
        IN  (turn.tools # <<>> /\ turn.context # NoRef) =>
              LET run == turn.tools[1]
                  key == ToText(run.name)
                  call == CallTool(key, C11_Arguments(turn), TurnContext(id), now)
              IN  (key \in OwnTools /\ Threw(call)) =>
                    /\ run.result = [error |-> "Error executing " \o key \o ": "
                                               \o call.threw]
                    /\ Last(turn.messages) =
                          [role |-> "tool", content |-> JSONstringify(run.result),
                           name |-> run.name]
                    /\ turn.pc \in {"call2", "returned"}
                    /\ turn.secondCalls = 1
                    /\ turn.attempt = C7_Failures(turn)
                    /\ Len(turn.delays) = C7_Failures(turn)

\* find_routes was called without toStop after one failed first completion:
\* its TypeError is the tool result, the second completion is awaited and one
\* attempt is used.
C11_Witness ==
    /\ Turn(1).pc = "call2"
    /\ Turn(1).first = <<Failure("failure"), Content(Str(MissingArgumentText))>>
    /\ Turn(1).tools[1].result =
          [error |-> "Error executing find_routes: Cannot read properties of undefined (reading 'toLowerCase')"]
    /\ Turn(1).attempt = 1

\* The indexes of the stops of a route whose name holds the asked name, letter
\* case apart.
C12_Matches(route, name) ==
    {i \in 1..Len(route.parsedStops) :
        includes(toLowerCase(route.parsedStops[i].name), toLowerCase(name))}

C12_Qualifies(route, fromStop, toStop) ==
    /\ C12_Matches(route, fromStop) # {}
    /\ C12_Matches(route, toStop) # {}
    /\ Min(C12_Matches(route, fromStop)) < Min(C12_Matches(route, toStop))

C12_Entry(route, fromStop, toStop) ==
    LET fromIndex == Min(C12_Matches(route, fromStop))
        toIndex == Min(C12_Matches(route, toStop))
    IN  [busId |-> route.busId,
         path |-> [k \in 1..(toIndex - fromIndex + 1) |->
                      route.parsedStops[fromIndex + k - 1].name],
         stopCount |-> toIndex - fromIndex + 1,
         estimatedTime |-> ToString(2 * (toIndex - fromIndex + 1)) \o " minutes"]

\* C12: find_routes returns one entry for each route, in order, on which the
\* first stop matching fromStop comes before the first stop matching toStop:
\* the stops from the one to the other, their number, and twice that number as
\* minutes. It returns success:false exactly when no route qualifies. A to C
\* on [A,B,C,D] gives [A,B,C], 3, "6 minutes"; C to A gives success:false.
C12_FindRoutes ==
    lastCall.op = "find_routes" =>
        LET fromStop == lastCall.arg.args.v.fromStop.v
            toStop == lastCall.arg.args.v.toStop.v
            routes == lastCall.arg.context.busRoutes
            qualifying == SelectSeq(routes, LAMBDA r : C12_Qualifies(r, fromStop, toStop))
        IN  /\ ~Threw(ret)
            /\ ret.value.success = (qualifying # <<>>)
            /\ ret.value.success =>
                  ret.value.routes =
                      [k \in 1..Len(qualifying) |->
                          C12_Entry(qualifying[k], fromStop, toStop)]
            /\ (routes = <<RouteOfBus("B1", <<"A", "B", "C", "D">>)>>
                /\ fromStop = "A" /\ toStop = "C") =>
                    ret.value.routes =
                        <<[busId |-> "B1", path |-> <<"A", "B", "C">>, stopCount |-> 3,
                           estimatedTime |-> "6 minutes"]>>
            /\ (routes = <<RouteOfBus("B1", <<"A", "B", "C", "D">>)>>
                /\ fromStop = "C" /\ toStop = "A") => ~ret.value.success

\* Of two routes with the same stops in opposite directions, the search from
\* "a" to "C" returned the one that runs from A to C.
C12_Witness ==
    /\ lastCall.op = "find_routes"
    /\ lastCall.arg.args.v.fromStop.v = "a"
    /\ lastCall.arg.args.v.toStop.v = "C"
    /\ Len(lastCall.arg.context.busRoutes) = 2
    /\ ret.value.success
    /\ Len(ret.value.routes) = 1
    /\ ret.value.routes[1].path = <<"A", "B", "C">>

C13_Error ==
    [error |-> "User location is not available. Cannot find nearest stops without it."]

\* C13: for a snapshot without userLocation, find_nearest_stops returns the
\* error object and does not throw; what it returns is the same whatever
\* stops the snapshot holds and whatever count is asked, so no stop and no
\* distance enters it.
C13_NoLocationNoSearch ==
    (lastCall.op = "find_nearest_stops" /\ lastCall.arg.context.userLocation = NULL)
        => ret = Returned(C13_Error)

\* Without a location and with the stops of two buses known, the error object
\* came back.
C13_Witness ==
    /\ lastCall.op = "find_nearest_stops"
    /\ lastCall.arg.context.userLocation = NULL
    /\ Len(lastCall.arg.context.busStops) = 2
    /\ ret = Returned(C13_Error)

\* C14: cleanupExpiredContexts removes from the store exactly the sessions
\* whose lastUpdated lies more than 30 minutes before now; every other user
\* keeps the session it had, with every field as it was.
C14_SweepFrame ==
    [][lastCall'.op = "cleanupExpiredContexts" =>
          \A userId \in Users :
              IF HasSession(userId)
                 /\ now - Session(userId).lastUpdated > 30 * 60 * 1000
              THEN ~HasSession(userId)'
              ELSE /\ HasSession(userId)' = HasSession(userId)
                   /\ Session(userId)' = Session(userId)
      ]_vars

\* The sweep ran one millisecond past the age of the session of u1 and at the
\* exact age of the session of u2: the first is gone, the second is there with
\* its message.
C14_Witness ==
    /\ lastCall.op = "cleanupExpiredContexts"
    /\ now = maxContextAge + 1
    /\ ~HasSession("u1")
    /\ HasSession("u2")
    /\ Session("u2").lastUpdated = 1
    /\ Len(Session("u2").messageHistory) = 1

\* C15: the sweep that runs every 10 minutes removes the sessions past the
\* age limit from the store the chat turns use: a session of that store is
\* never older than the age limit plus one sweep interval.
C15_IdleSessionSwept ==
    \A userId \in Users :
        HasSession(userId) =>
            now - Session(userId).lastUpdated <= maxContextAge + sweepInterval

\* C16: after a reset the user's session has no messages, no exchanges, no
\* location, the default preferences and the current time as start and last
\* update, whether or not the user had a session; every other user has the
\* session it had, or none as before.
C16_ResetReplaces ==
    [][\A userId \in Users :
          (lastCall'.op = "createNewContext" /\ lastCall'.userId = userId) =>
              /\ HasSession(userId)'
              /\ Session(userId)'.messageHistory = <<>>
              /\ Session(userId)'.conversationHistory = <<>>
              /\ Session(userId)'.userLocation = NULL
              /\ Session(userId)'.preferences =
                    [preferredUnits |-> "metric", maxNearbyStops |-> 5,
                     notificationRadius |-> 500]
              /\ Session(userId)'.sessionStartTime = now
              /\ Session(userId)'.lastUpdated = now
              /\ \A other \in Users \ {userId} :
                    /\ HasSession(other)' = HasSession(other)
                    /\ Session(other)' = Session(other)
      ]_vars

\* u1 was reset one millisecond after the start, after all messages of the run
\* were appended; u2 still has its exchange and its location.
C16_Witness ==
    /\ lastCall = Call("createNewContext", "u1", <<>>)
    /\ now = 1
    /\ appended = MaxResetAppends
    /\ Session("u1").sessionStartTime = 1
    /\ HasSession("u2")
    /\ Len(Session("u2").conversationHistory) = 1
    /\ Session("u2").userLocation = Loc1
    /\ Session("u2").sessionStartTime = 0

\* C17: the first completed turn of a user leaves in the messageHistory the
\* two messages of the turn, the user's text and then the reply, each once,
\* and in the legacy exchanges the one pair of the turn.
C17_TurnAppendsOnce ==
    \A id \in TurnIds :
        LET turn == Turn(id)
        IN  (turn.pc = "done" /\ turn.caller = "handler" /\ ~turn.threw /\ served = 1) =>
              LET session == Session(turn.userId)
              IN  /\ Len(session.messageHistory) = 2
                  /\ session.messageHistory[1].role = "user"
                  /\ session.messageHistory[1].content = turn.message
                  /\ session.messageHistory[2].role = "assistant"
                  /\ session.messageHistory[2].content = turn.result
                  /\ Len(session.conversationHistory) = 1
                  /\ session.conversationHistory[1].userMessage = turn.message
                  /\ session.conversationHistory[1].aiResponse = turn.result

\* C18: getConversationSummary changes nothing: after the call every user has
\* the session it had before, or none as before, whether the asked user had a
\* live session, an expired one or none.
C18_SummaryReadOnly ==
    [][lastCall'.op = "getConversationSummary" =>
          \A userId \in Users :
              /\ HasSession(userId)' = HasSession(userId)
              /\ Session(userId)' = Session(userId)
      ]_vars

C19_Writes == {"updateContext", "addMessageToHistory"}
C19_Reads == {"getUserContext", "getFormattedHistory", "getConversationSummary"}

\* C19: updateContext and addMessageToHistory leave lastUpdated at the current
\* time, whatever the patch holds: nothing, null or undefined values only, or
\* a lastUpdated of its own. getUserContext, getFormattedHistory and
\* getConversationSummary on a live session leave lastUpdated as it was.
C19_LastUpdated ==
    [][\A userId \in Users :
          lastCall'.userId = userId =>
              /\ lastCall'.op \in C19_Writes => Session(userId)'.lastUpdated = now
              /\ ( /\ lastCall'.op \in C19_Reads
                   /\ HasSession(userId)
                   /\ now - Session(userId).lastUpdated <= maxContextAge )
                 => /\ HasSession(userId)'
                    /\ Session(userId)'.lastUpdated = Session(userId).lastUpdated
      ]_vars

\* One millisecond after the session was created it was patched with
\* {lastUpdated: 0}: lastUpdated is the time of the patch.
C19_Witness ==
    /\ lastCall = Call("updateContext", "u1", [lastUpdated |-> Value(0)])
    /\ now = 1
    /\ Session("u1").sessionStartTime = 0
    /\ Session("u1").lastUpdated = 1

\* C20: a turn executes at most one tool, whatever the number of first
\* completions it takes; a second completion that arrives is the answer as it
\* is, also when its text reads as a tool call.
C20_OneToolRound ==
    \A id \in TurnIds :
        LET turn == Turn(id)
        IN  /\ Len(turn.tools) <= 1
            /\ Len(turn.second) <= 1
            /\ turn.secondCalls <= 1
            /\ (turn.second # <<>> /\ turn.second[1].kind = "content") =>
                  /\ Ended(turn)
                  /\ turn.result = turn.second[1].content
                  /\ Len(turn.tools) = 1

\* After two failed first completions a tool ran once, and the second
\* completion, itself the text of a tool call, was returned as the answer.
C20_Witness ==
    /\ Turn(1).pc = "returned"
    /\ C7_Failures(Turn(1)) = 2
    /\ Len(Turn(1).tools) = 1
    /\ Turn(1).second = <<Content(Str(FindRoutesText))>>
    /\ Turn(1).result = Str(FindRoutesText)

C21_AgentSteps == {"call1", "delay", "call2"}

\* C21: the steps of processQuery (a completion that ends, the tool it names,
\* the retry timer) leave activeBuses, busRoutes and busStops of the server as
\* they were, and the session object the turn was given with every field as it
\* was: userLocation, the snapshot, the histories, the timestamps.
C21_AgentLeavesState ==
    [][\A id \in TurnIds :
          (Turn(id).pc \in C21_AgentSteps /\ Turn(id)' # Turn(id)) =>
              /\ activeBuses' = activeBuses
              /\ busRoutes' = busRoutes
              /\ busStops' = busStops
              /\ Turn(id)'.context = Turn(id).context
              /\ TurnContext(id)' = TurnContext(id)
              /\ userContexts' = userContexts
      ]_vars

\* find_nearest_stops ran for a user at Loc2, from where the stops of the
\* snapshot are not in order of distance: it returned C first, and the
\* snapshot and the server's map still hold the stops from A to D.
C21_Witness ==
    /\ Turn(1).pc = "call2"
    /\ Len(Turn(1).tools) = 1
    /\ Turn(1).tools[1].invoked = "find_nearest_stops"
    /\ "stops" \in DOMAIN Turn(1).tools[1].result
    /\ Turn(1).tools[1].result.stops[1].name = "C"
    /\ TurnContext(1).userLocation = Loc2
    /\ TurnContext(1).busStops = <<[busId |-> "B1", stops |-> SampleStops]>>
    /\ busStops = <<[busId |-> "B1", stops |-> SampleStops]>>

\* C22: turns of one user are not serialized. A message of the user that
\* arrives while an earlier turn of the user is suspended at a model call or at
\* its retry delay is appended at once to the end of the history that turn
\* writes to, and the suspended turn stays as it is; the reply of a turn is
\* appended to the end of the history as it is when the turn resumes, behind
\* whatever was appended in between.
C22_NotSerialized ==
    [][\A id, other \in TurnIds :
          ( /\ id # other
            /\ Turn(other).pc \in {"call1", "delay", "call2", "returned"}
            /\ Turn(other).caller = "handler" )
          => LET userId == Turn(other).userId
                 history == Session(userId).messageHistory
             IN  /\ ( /\ served' = served + 1
                      /\ Turn(id)' # Turn(id)
                      /\ Turn(id)'.userId = userId )
                    => /\ userContexts'[userId] = Turn(other).context
                       /\ Session(userId)'.messageHistory =
                              Append(history, Message("user", Turn(id)'.message, now))
                       /\ Turn(other)' = Turn(other)
                 /\ ( /\ Turn(other).pc = "returned"
                      /\ Turn(other)'.pc = "done"
                      /\ ~Turn(other).threw )
                    => /\ Len(Session(userId)'.messageHistory) = Len(history) + 3
                       /\ SubSeq(Session(userId)'.messageHistory, 1, Len(history))
                              = history
                       /\ Session(userId)'.messageHistory[Len(history) + 1] =
                              Message("assistant", Turn(other).result, now)
      ]_vars

\* Both turns of u1 were answered and the history starts with the first
\* message, the second message, the first reply: the second message was
\* appended between the first message and its reply.
C22_Witness ==
    /\ Turn(1).pc = "done" /\ Turn(2).pc = "done"
    /\ Turn(1).message = Text(1) /\ Turn(2).message = Text(2)
    /\ Turn(1).result = OverlapReply(1)
    /\ Len(Session("u1").messageHistory) >= 3
    /\ Session("u1").messageHistory[1] = Message("user", Text(1), 0)
    /\ Session("u1").messageHistory[2] = Message("user", Text(2), 0)
    /\ Session("u1").messageHistory[3] = Message("assistant", OverlapReply(1), 0)

\* The session the store holds for the user when the turn resumes is not the
\* one the turn was given: it was deleted or replaced, or has grown old.
C23_SessionGone(turn) ==
    \/ userContexts[turn.userId] # turn.context
    \/ now - Session(turn.userId).lastUpdated > maxContextAge

\* The session the resumed handler writes to: the one a reset has put into the
\* store, or a new one.
C23_Base(turn) ==
    IF HasSession(turn.userId)
       /\ now - Session(turn.userId).lastUpdated <= maxContextAge
    THEN Session(turn.userId)
    ELSE NewContext(turn.userId, now)

\* C23: when the session of a user was swept or reset, or has expired, while
\* the user's turn was suspended, the handler resumes without an error: it
\* emits the one ai_chat_response with the reply, and what it appends goes to
\* the session a reset left, or to a session created now, which holds nothing
\* of the session the turn was given; that object is in the store no more.
C23_TurnOutlivesSession ==
    [][\A id \in TurnIds :
          LET turn == Turn(id)
              userId == turn.userId
              base == C23_Base(turn)
              session == Session(userId)'
          IN  ( /\ turn.pc = "returned" /\ Turn(id)'.pc = "done"
                /\ turn.caller = "handler" /\ ~turn.threw
                /\ C23_SessionGone(turn) )
              => /\ Turn(id)'.emitted =
                       <<[event |-> "ai_chat_response", userId |-> userId,
                          message |-> turn.result,
                          sessionInfo |->
                              [userId |-> userId,
                               sessionDurationMinutes |->
                                   (now - base.sessionStartTime) \div 60000,
                               messageCount |-> Len(session.messageHistory),
                               lastActivity |-> now,
                               hasLocation |-> base.userLocation # NULL,
                               recentSearchCount |-> 0],
                          contextActive |-> TRUE]>>
                 /\ IsString(turn.result)
                 /\ HasSession(userId)'
                 /\ userContexts'[userId] # turn.context
                 /\ session.sessionStartTime = base.sessionStartTime
                 /\ session.userLocation = base.userLocation
                 /\ session.activeBuses = base.activeBuses
                 /\ session.messageHistory =
                       base.messageHistory
                       \o <<Message("assistant", turn.result, now),
                            Message("user", turn.message, now),
                            Message("assistant", turn.result, now)>>
      ]_vars

\* The turn's session grew old and was swept while the turn waited for the
\* model; the turn was answered, and the user's session is one created when
\* the handler resumed, without the location the turn had stored.
C23_WitnessSweep ==
    /\ Turn(1).pc = "done"
    /\ served = 1
    /\ now = maxContextAge + 1
    /\ Len(Turn(1).emitted) = 1
    /\ Turn(1).emitted[1].event = "ai_chat_response"
    /\ HasSession("u1")
    /\ Session("u1").sessionStartTime = maxContextAge + 1
    /\ Session("u1").userLocation = NULL
    /\ Session("u1").messageHistory[1].role = "assistant"

\* The user's session was reset a millisecond after the turn began, while the
\* turn waited for the model: the turn was answered, and the session is the
\* one the reset created, with the three messages the resumed handler appends.
C23_Witness ==
    /\ Turn(1).pc = "done"
    /\ served = 1
    /\ now = 1
    /\ Len(Turn(1).emitted) = 1
    /\ Turn(1).emitted[1].event = "ai_chat_response"
    /\ HasSession("u1")
    /\ Session("u1").sessionStartTime = 1
    /\ Session("u1").lastUpdated = 1
    /\ Session("u1").userLocation = NULL
    /\ Len(Session("u1").messageHistory) = 3

\* C24: after n addToConversationHistory calls on a session, whatever was
\* appended to messageHistory in between, conversationHistory holds the last
\* min(n, 10) exchanges in the order they were recorded, each as it was given.
C24_RecentExchanges ==
    HasSession("u1") =>
        LET n == Exchanges
            kept == IF n < 10 THEN n ELSE 10
        IN  /\ Len(Session("u1").conversationHistory) <= 10
            /\ Session("u1").conversationHistory =
                  [i \in 1..kept |->
                      [timestamp |-> 0, userMessage |-> Text(n - kept + i),
                       aiResponse |-> Text(n - kept + i)]]

\* The eleventh exchange was recorded after two messages of their own: the
\* exchanges 2 to 11 are kept, and messageHistory is at its own cap.
C24_Witness ==
    /\ lastCall.op = "addToConversationHistory"
    /\ appended = 2 * 11 + 2
    /\ Len(Session("u1").conversationHistory) = 10
    /\ Session("u1").conversationHistory[1].userMessage = Text(2)
    /\ Session("u1").conversationHistory[10].userMessage = Text(11)
    /\ Len(Session("u1").messageHistory) = maxHistoryLength

\* The messages a store call appends, in order.
C25_Appended(call, t) ==
    CASE call.op = "addMessageToHistory" -> <<Message(call.arg[1], call.arg[2], t)>>
      [] call.op = "addToConversationHistory" ->
            <<Message("user", call.arg[1], t), Message("assistant", call.arg[2], t)>>
      [] OTHER -> <<>>

\* C25: within one session lifetime every append leaves the history it found,
\* followed by the appended messages, cut to its last 20: after n appended
\* messages messageHistory is the last min(n, 20) of them in the order they
\* were appended, so that only messages at the front are ever dropped.
C25_AppendsInOrder ==
    [][appended' # appended =>
          LET before == IF HasSession("u1") THEN Session("u1").messageHistory ELSE <<>>
              all == before \o C25_Appended(lastCall', now)
              after == Session("u1")'.messageHistory
              n == appended'
              kept == IF n < 20 THEN n ELSE 20
          IN  /\ after = IF Len(all) <= 20 THEN all
                         ELSE SubSeq(all, Len(all) - 19, Len(all))
              /\ Len(after) = kept
              /\ \A i \in 1..kept : after[i].content = Text(n - kept + i)
      ]_vars

\* The 21st message was appended: the history runs from the 2nd message to
\* the 21st.
C25_Witness ==
    /\ appended = 21
    /\ lastCall.op = "addMessageToHistory"
    /\ Len(Session("u1").messageHistory) = 20
    /\ Session("u1").messageHistory[1].content = Text(2)
    /\ Session("u1").messageHistory[20].content = Text(21)

\* The last k messages of a history.
C26_Suffix(history, k) == SubSeq(history, Len(history) - k + 1, Len(history))

\* C26: asked with the preamble, getFormattedHistory on a live session returns
\* the system message it has just built, first, followed by the last k
\* messages of the stored messageHistory in their order, for some k; all of
\* them when the estimate of the whole is within the budget; and the session,
\* its messageHistory included, is after the call as it was before.
C26_SystemThenSuffix ==
    [][(lastCall'.op = "getFormattedHistory" /\ lastCall'.arg = TRUE) =>
          LET history == Session("u1").messageHistory
              system == Message("system", buildSystemPrompt(Session("u1"), now), now)
              k == Len(ret') - 1
          IN  /\ Len(ret') >= 1
              /\ ret'[1] = system
              /\ k <= Len(history)
              /\ Tail(ret') = C26_Suffix(history, k)
              /\ estimateTokens(<<system>> \o history) <= maxTokensPerContext
                    => k = Len(history)
              /\ Session("u1")' = Session("u1")
      ]_vars

\* Of three stored messages the first two were left out of what the call
\* returned: the system message and the third message; the session still
\* holds the three.
C26_Witness ==
    /\ lastCall = Call("getFormattedHistory", "u1", TRUE)
    /\ Len(Session("u1").messageHistory) = 3
    /\ Len(ret) = 2
    /\ ret[1].role = "system"
    /\ ret[2] = Session("u1").messageHistory[3]

\* The text parses to an object with a string as tool_name and an object as
\* arguments.
C27_WellTyped(content) ==
    LET parsed == JSONparse(content)
    IN  /\ ~Threw(parsed)
        /\ Prop(parsed.value, "tool_name").t = "string"
        /\ Prop(parsed.value, "arguments").t = "object"

\* C27: a first completion whose text is not an object with a string
\* tool_name and an object arguments is the answer as it is: no tool is run for
\* it and no second completion is called.
C27_OnlyTypedToolCalls ==
    \A id \in TurnIds :
        LET turn == Turn(id)
        IN  ( /\ turn.first # <<>>
              /\ Last(turn.first).kind = "content"
              /\ ~C27_WellTyped(Last(turn.first).content) )
            => /\ turn.tools = <<>>
               /\ turn.secondCalls = 0
               /\ Ended(turn)
               /\ turn.result = Last(turn.first).content

\* C28: the messages a turn submits to the second completion are four, in
\* this order: the system prompt built for the session, the user's message, an
\* assistant message without content that records the invocation (an id made
\* of the time, the name and the serialized arguments the first completion
\* gave), and a tool message with the name and the serialized result of the
\* tool. The tool has run by the time the second completion is called, and
\* the first completion that named it is the last one.
C28_SecondCallMessages ==
    \A id \in TurnIds :
        LET turn == Turn(id)
        IN  (turn.secondCalls > 0 /\ turn.context # NoRef) =>
              LET toolCall == JSONparse(Last(turn.first).content).value
                  tool_name == Prop(toolCall, "tool_name")
                  args == Prop(toolCall, "arguments")
              IN  /\ Len(turn.tools) = 1
                  /\ turn.tools[1].name = tool_name
                  /\ Len(turn.second) <= 1
                  /\ (turn.pc = "call2") = (turn.second = <<>>)
                  /\ turn.messages =
                        <<[role |-> "system",
                           content |-> AIAgent_buildSystemPrompt(TurnContext(id), now)],
                          [role |-> "user", content |-> turn.message],
                          [role |-> "assistant", content |-> NULL,
                           tool_calls |->
                              <<[id |-> now, type |-> "function",
                                 function |-> [name |-> tool_name,
                                               arguments |-> [json |-> args]]]>>],
                          [role |-> "tool",
                           content |-> [json |-> turn.tools[1].result],
                           name |-> tool_name]>>

\* After a failed first completion, get_bus_details was named for bus b1: the
\* second completion was called with the four messages, the last carrying the
\* details of B1.
C28_Witness ==
    /\ Turn(1).pc = "call2"
    /\ Turn(1).first = <<Failure("failure"), Content(Str(BusDetailsText))>>
    /\ Len(Turn(1).messages) = 4
    /\ Turn(1).messages[3].tool_calls[1].function.arguments =
          [json |-> JObj([busId |-> JStr("b1")])]
    /\ Turn(1).messages[4].role = "tool"
    /\ Turn(1).messages[4].content.json.status = "found"

C29_Suspended(turn) == turn.pc \in {"call1", "delay", "call2"}

\* C29: a turn that waits for a model call or a retry timer comes to its end:
\* processQuery returns a string, after at most 3 first completions and at
\* most 1 second completion, however the calls and the tool end.
C29_TurnReturnsText ==
    \A id \in TurnIds :
        C29_Suspended(Turn(id))
            ~> ( /\ Turn(id).pc = "returned"
                 /\ ~Turn(id).threw
                 /\ IsString(Turn(id).result)
                 /\ Turn(id).firstCalls <= 3
                 /\ Turn(id).secondCalls <= 1 )

\* What of C29 holds: the turn comes to its end within the 4 calls, and
\* processQuery returns what the last completion gave or one of its own texts.
C29_TurnReturns ==
    \A id \in TurnIds :
        C29_Suspended(Turn(id))
            ~> ( /\ Turn(id).pc = "returned"
                 /\ ~Turn(id).threw
                 /\ Turn(id).firstCalls <= 3
                 /\ Turn(id).secondCalls <= 1 )

----------------------------------------------------------------------------
(* C30 *)

\* The snapshot a session object holds
Snapshot(context) ==
    [activeBuses |-> context.activeBuses, busRoutes |-> context.busRoutes,
     busStops |-> context.busStops]

\* A step in which turn id executes a tool runs it on what the server's maps
\* hold at that moment.
C30_UpdatesVisible ==
    \A id \in TurnIds :
        (Turn(id).pc = "call1" /\ Len(Turn(id).tools') > Len(Turn(id).tools))
            => Snapshot(TurnContext(id))
                   = [activeBuses |-> activeBuses, busRoutes |-> busRoutes,
                      busStops |-> busStops]

\* No step replaces the snapshot of a turn that waits for its first completion.
C30_NotReplaced ==
    \A id \in TurnIds :
        (Turn(id).pc = "call1" /\ Turn(id)'.pc = "call1")
            => Snapshot(heap'[Turn(id).context]) = Snapshot(TurnContext(id))

\* C30: the snapshot a tool executes against is supplied at tool-execution
\* time: what the server's maps hold when the tool runs, updates processed
\* while the turn waited for its first completion included, is what the tool
\* is given, and no concurrent turn replaces the snapshot of a waiting turn.
C30_SnapshotAtExecution == [][C30_UpdatesVisible /\ C30_NotReplaced]_vars

\* C30, first half alone
C30_ToolSeesUpdates == [][C30_UpdatesVisible]_vars

\* C30, second half alone
C30_WaitingSnapshotKept == [][C30_NotReplaced]_vars

----------------------------------------------------------------------------
(* C31 *)

\* A stop with a name and coordinates: a coordinate is a number, 0 included.
C31_HasNameAndCoordinates(stop) == stop.name # ""

\* The stops of the snapshot with a name and coordinates are all in the answer:
\* asked for at least as many stops as there are, the tool lists every name.
C31_EveryStopCandidate ==
    LET context == lastCall.arg.context
        stops == Flatten(context.busStops)
    IN  Prop(lastCall.arg.args, "count") = JNum(5)
            => /\ "value" \in DOMAIN ret
               /\ \A i \in 1..Len(stops) :
                     C31_HasNameAndCoordinates(stops[i])
                         => /\ "stops" \in DOMAIN ret.value
                            /\ \E k \in 1..Len(ret.value.stops) :
                                  toLowerCase(ret.value.stops[k].name)
                                      = toLowerCase(stops[i].name)

\* C31: find_nearest_stops returns the location error only when the snapshot
\* has no user location; with a location, a coordinate of 0 included, it goes
\* on to the stops, and every stop with a name and coordinates, a coordinate
\* of 0 included, is a candidate.
C31_ErrorOnlyWithoutLocation ==
    lastCall.op = "find_nearest_stops" =>
        /\ (ret = Returned(C13_Error)) <=> (lastCall.arg.context.userLocation = NULL)
        /\ lastCall.arg.context.userLocation # NULL => C31_EveryStopCandidate

\* C31, first half: a location with a coordinate of 0 is a location.
C31_ZeroLocationSearched ==
    (lastCall.op = "find_nearest_stops" /\ lastCall.arg.context.userLocation # NULL)
        => ret # Returned(C13_Error)

\* C31, second half: a stop with a coordinate of 0 is a candidate.
C31_ZeroStopCandidate ==
    (/\ lastCall.op = "find_nearest_stops"
     /\ lastCall.arg.context.userLocation \in {Loc1, Loc2})
        => C31_EveryStopCandidate

----------------------------------------------------------------------------
(* C32 *)

----------------------------------------------------------------------------
(* C33, C34 *)

\* The buses of the snapshot whose busId is the one asked for, letter case
\* ignored
C33_Active ==
    {i \in 1..Len(lastCall.arg.context.activeBuses) :
        toLowerCase(lastCall.arg.context.activeBuses[i].busId)
            = toLowerCase(lastCall.arg.args.v.busId.v)}

\* The routes of the snapshot filed under the busId asked for
C33_Routes ==
    {i \in 1..Len(lastCall.arg.context.busRoutes) :
        lastCall.arg.context.busRoutes[i].busId = lastCall.arg.args.v.busId.v}

\* The stops of route i whose lower-cased name holds the lower-cased stopName
C33_Matches(i) ==
    {k \in 1..Len(lastCall.arg.context.busRoutes[i].parsedStops) :
        includes(toLowerCase(lastCall.arg.context.busRoutes[i].parsedStops[k].name),
                 toLowerCase(lastCall.arg.args.v.stopName.v))}

C34_SameMatchingRule ==
    (/\ lastCall.op = "get_arrival_time"
     /\ C33_Active # {}
     /\ \E i \in 1..Len(lastCall.arg.context.busRoutes) :
            lastCall.arg.context.busRoutes[i].busId
                = lastCall.arg.context.activeBuses[Min(C33_Active)].busId)
        => ret # Returned([error |-> "Route information not available for bus "
                                     \o lastCall.arg.args.v.busId.v \o "."])

----------------------------------------------------------------------------
(* C35 *)

\* The step removes the connection of socketId, whose driver has just
\* reported a position of its bus over it.
C35_DriverDisconnects(socketId) ==
    /\ Connected(socketId)
    /\ activeConnections'[socketId] = NoConnection
    /\ lastCall = Call("driver_location_update", DriverBus[socketId],
                       DriverReport(socketId))
    /\ MapHas(activeBuses, DriverBus[socketId])

\* C35: when a driver's socket disconnects, the bus the driver was reporting
\* is removed from activeBuses and a bus_inactive event for it is broadcast.
C35_DisconnectRemovesBus ==
    [][\A socketId \in SocketIds :
          C35_DriverDisconnects(socketId)
              => /\ ~MapHas(activeBuses', DriverBus[socketId])
                 /\ broadcast' = Append(broadcast,
                                        [event |-> "bus_inactive",
                                         busId |-> DriverBus[socketId]])]_vars

----------------------------------------------------------------------------
(* C36 *)

\* C36: no two proximity events of one bus at one stop lie less than 5
\* minutes apart, however the location updates of the bus overlap.
C36_OneEventPerWindow ==
    \A i, j \in 1..Len(db.proximity_events) :
        (/\ i < j
         /\ db.proximity_events[i].bus_id = db.proximity_events[j].bus_id
         /\ db.proximity_events[i].stop_id = db.proximity_events[j].stop_id)
            => db.proximity_events[j].timestamp - db.proximity_events[i].timestamp
                   >= proximityWindow

----------------------------------------------------------------------------
(* C37 *)

\* C37: in the background runner at most one location-polling timer exists,
\* one exists exactly when isActive is true, and after a stop isActive is
\* false and busId, deviceId and intervalId are null, whatever start, stop and
\* configuration messages came before.
C37_OneTimer ==
    /\ Cardinality(intervals) <= 1
    /\ (intervals # {}) <=> backgroundState.isActive
    /\ lastCall.op = "STOP_BACKGROUND_TRACKING"
           => /\ ~backgroundState.isActive
              /\ backgroundState.busId = NULL
              /\ backgroundState.deviceId = NULL
              /\ backgroundState.intervalId = NULL

\* Tracking was started twice and then given a new interval: the third timer
\* is the only one.
C37_Witness ==
    /\ lastCall.op = "UPDATE_CONFIG"
    /\ timerIds = 3
    /\ backgroundState.isActive
    /\ backgroundState.busId = Str("B2")
    /\ intervals = {[timer |-> 3]}
    /\ backgroundState.intervalId = [timer |-> 3]

----------------------------------------------------------------------------
(* C38 *)

\* The step is the failure of a capture that awaited its position.
C38_CaptureFails ==
    /\ lastCall'.op = "positionRejected"
    /\ \E c \in CaptureIds : captures[c].pc = "awaiting" /\ captures'[c].pc = "idle"

C38_CaptureSucceeds ==
    /\ lastCall'.op = "positionResolved"
    /\ \E c \in CaptureIds : captures[c].pc = "awaiting" /\ captures'[c].pc = "idle"

\* The failure that makes maxRetries failures in a row stops the tracking.
C38_Stops ==
    (C38_CaptureFails /\ failedInARow' = BACKGROUND_CONFIG.maxRetries)
        => /\ ~backgroundState'.isActive
           /\ intervals' = {}

\* The failure that makes maxRetries failures in a row reports maxRetries.
C38_Reports ==
    (C38_CaptureFails /\ failedInARow' = BACKGROUND_CONFIG.maxRetries)
        => \E k \in 1..Len(posted') :
               /\ posted'[k].type = "BACKGROUND_ERROR"
               /\ posted'[k].data.retryCount = BACKGROUND_CONFIG.maxRetries

C38_Resets == C38_CaptureSucceeds => backgroundState'.retryCount = 0

\* C38: maxRetries capture failures with no successful capture between them
\* stop the tracking (isActive false, the timer cleared) and send a
\* BACKGROUND_ERROR message whose retry count is maxRetries; a successful
\* capture sets the retry count to 0.
C38_RetriesStopTracking == [][C38_Stops /\ C38_Reports /\ C38_Resets]_vars

\* C38, the stop alone
C38_FailuresStop == [][C38_Stops]_vars

\* C38, the report alone
C38_ReportsMaxRetries == [][C38_Reports]_vars

\* C38, the reset alone
C38_SuccessResets == [][C38_Resets]_vars

\* C38, the stop as the runner counts: the failure that brings retryCount to
\* maxRetries stops the tracking and sends BACKGROUND_ERROR.
C38_CountedFailuresStop ==
    [][(C38_CaptureFails /\ backgroundState.retryCount + 1 >= BACKGROUND_CONFIG.maxRetries)
          => /\ ~backgroundState'.isActive
             /\ intervals' = {}
             /\ \E k \in 1..Len(posted') : posted'[k].type = "BACKGROUND_ERROR"]_vars

----------------------------------------------------------------------------
(* C39 *)

\* The location updates the step sends (posted holds what one handler sends)
C39_Updates ==
    {k \in 1..Len(posted') : posted'[k].type = "BACKGROUND_LOCATION_UPDATE"}

\* An update is sent only while the tracking is active.
C39_SentWhileActive == C39_Updates # {} => backgroundState.isActive

\* An update carries the busId and deviceId the runner had when the capture
\* that sends it began.
C39_OwnRun ==
    \A c \in CaptureIds :
        (captures[c].pc = "awaiting" /\ captures'[c].pc = "idle")
            => \A k \in C39_Updates :
                   /\ posted'[k].data.busId = captures[c].busId
                   /\ posted'[k].data.deviceId = captures[c].deviceId

\* C39: no BACKGROUND_LOCATION_UPDATE is sent after the tracking has been
\* stopped and before it is started again, and every update carries the busId
\* and deviceId of the tracking run that was active when its capture began,
\* also when the capture still awaits the position at the moment of the stop
\* or of a restart with another bus.
C39_UpdatesOfActiveRun == [][C39_SentWhileActive /\ C39_OwnRun]_vars

\* C39, first half alone
C39_NoUpdateAfterStop == [][C39_SentWhileActive]_vars

\* C39, second half alone, for the runs in which the tracking is active when
\* the position arrives
C39_RestartKeepsRun == [][backgroundState.isActive => C39_OwnRun]_vars

====
